---- MODULE Spec2Model ----
(***************************************************************************)
(* Shared-memory telemetry pipeline of server_for_mpu6050/c_server:        *)
(*   - the Producer process (producer.c) that fills the ring buffer of the *)
(*     POSIX shared-memory segment under the named semaphore,              *)
(*   - the launch script (start.sh) that starts the processes and removes  *)
(*     the OS objects,                                                     *)
(*   - the Server process (src/unnamed/part_002): data_reader_thread, the  *)
(*     mutex/condvar protected cache, the accept loop with admission       *)
(*     control, the self-pipe shutdown and the connection handlers.        *)
(*                                                                         *)
(* A float sample (mpu6050_sample_float_t, seven components that the code  *)
(* always treats alike) is modelled by one integer; the average is the     *)
(* integer quotient sum \div count.                                        *)
(***************************************************************************)
EXTENDS Integers, Sequences, FiniteSets, TLC

(***************************************************************************)
(* Bounds of the model.                                                    *)
(***************************************************************************)
\* Capacity of the ring.  producer.h sets 16; the model is checked with a
\* scaled-down capacity, every definition below is parametric in it.
BUFFER_SIZE == 3
\* Appends one Producer run may perform before the model stops feeding it.
MaxWrites == 5
\* Publications of data_reader_thread before the model stops it (the code's
\* version is an unbounded uint64_t counter).
MaxVersion == 2
\* Largest sample value the device yields in the model (values 1..MaxSample).
MaxSample == 2
\* Client endpoints that may connect to the Server.
MaxClients == 2
\* Largest max_connections value the configuration store supplies.
MaxLimit == 1
\* Connections already admitted when the cache is examined (SpecCache).
MaxReaders == 1
\* Bytes the self-pipe is allowed to hold in the model (signals not yet drained).
MaxPipe == 2

Samples == 1..MaxSample
Conns   == 1..MaxClients

VARIABLES
    \* ---- OS objects (names under /dev/shm) and the mapped segment
    shmExists,      \* /dev/shm/data_buffer exists
    semExists,      \* /dev/shm/sem.data_sem exists
    sem,            \* value of the named semaphore
    holders,        \* processes whose last sem_wait acquired and that have not posted yet
    seg,            \* shared_data_t plus the current_sample field part_002 reads
    \* ---- Producer process (producer.c)
    ppc,            \* position of the Producer in main()
    prunning,       \* producer.c: static volatile sig_atomic_t running
    psample,        \* local `sample` of the current cycle
    pzero,          \* fields of the segment memset() has still to zero
    pexit,          \* exit code of the Producer (-1 while it has none)
    written,        \* samples appended since the Producer mapped the segment
    \* ---- launch script (start.sh)
    script,         \* "running" or "cleaned"
    device,         \* /dev/mpu6050: the record the next read of the device gives
    cfgfile,        \* server_config.cfg: readable or not, how many of its three
                    \* lines fscanf can convert, and the values they hold
    \* ---- the formatting of one response (part_002 conn_handler, 255-517)
    fmt,            \* path, widths of the values, body_len, header_len, bytes sent
    \* ---- kernel modules
    i2c,            \* part_006: g_xfer, g_xfer_lock, the callers and the controller
    gpio,           \* part_003: irq_counter, last_jiffies, jiffies and the readers
    \* ---- Server process (part_002): globals
    running,        \* static volatile sig_atomic_t running
    attached,       \* g_shared_data and g_sem are non-NULL
    pipe,           \* bytes waiting in the self-pipe (-1: pipe not created / closed)
    config,         \* g_server_config
    active,         \* g_active_connections
    cache,          \* g_cached_data: current_sample, average, version
    mutex,          \* owner of g_cached_data.mutex (Free, ReaderThread or a connection)
    woken,          \* handlers a pthread_cond_broadcast has woken and that did not run yet
    pub,            \* number of the publication that stored each cache field
    \* ---- Server: data_reader_thread
    rpc, rsample, ravg,
    \* ---- Server: main() / accept loop
    apc,            \* position of main()
    acur,           \* connection returned by accept() (0: none)
    alocal,         \* local active_connections loaded at the admission check
    alimit,         \* what the first test of the check saw: max_connnections > 0
    listener,       \* port and backlog the listening socket was set up with
    sexit,          \* exit code of the Server (-1 while it has none)
    \* ---- connections
    sock,           \* per client: state of the socket and what was sent on it
    h               \* per client: the conn_handler thread serving it

segVars    == <<shmExists, semExists, sem, holders, seg>>
prodVars   == <<ppc, prunning, psample, pzero, pexit, written>>
cacheVars  == <<cache, mutex, woken, pub>>
readerVars == <<rpc, rsample, ravg>>
mainVars   == <<apc, acur, alocal, alimit, listener, sexit>>
srvVars    == <<running, attached, pipe, config, active>>
connVars   == <<sock, h>>
otherVars  == <<fmt, i2c, gpio>>
envVars    == <<script, cfgfile, device, otherVars>>
vars == <<segVars, prodVars, envVars, srvVars, cacheVars, readerVars, mainVars, connVars>>

(***************************************************************************)
(* The shared segment: shared_data_t.                                      *)
(***************************************************************************)
Fields == {"buffer", "average", "count", "write_index", "current_sample"}

ZeroBuffer == [i \in 0..(BUFFER_SIZE - 1) |-> 0]

ZeroSegment ==
    [buffer |-> ZeroBuffer, average |-> 0, count |-> 0, write_index |-> 0,
     current_sample |-> 0]

\* memset(shared_data, 0, sizeof(shared_data_t)), one field of the struct.
ZeroField(sg, f) ==
    IF f = "buffer" THEN [sg EXCEPT !.buffer = ZeroBuffer] ELSE [sg EXCEPT ![f] = 0]

\* sum of buffer[0] .. buffer[n-1]
RECURSIVE SumTo(_, _)
SumTo(buf, n) == IF n = 0 THEN 0 ELSE buf[n - 1] + SumTo(buf, n - 1)

\* Faulty variants of the append, used to show that the ring properties
\* depend on it: the cursor is not advanced; a full ring drops the new sample.
AppendNoAdvance(sg, s) ==
    [sg EXCEPT !.buffer[sg.write_index] = s,
               !.count = IF sg.count < BUFFER_SIZE THEN sg.count + 1 ELSE sg.count]

AppendDropWhenFull(sg, s) ==
    IF sg.count = BUFFER_SIZE
       THEN sg
       ELSE [sg EXCEPT !.buffer[sg.write_index] = s,
                       !.write_index = (sg.write_index + 1) % BUFFER_SIZE,
                       !.count = sg.count + 1]

\* producer.c:135-138: store at the write cursor, advance it, saturate count.
AppendSample(sg, s) ==
    [sg EXCEPT !.buffer[sg.write_index] = s,
               !.write_index = (sg.write_index + 1) % BUFFER_SIZE,
               !.count = IF sg.count < BUFFER_SIZE THEN sg.count + 1 ELSE sg.count]

\* producer.c:142-162: sum over i < count, divided by count when count > 0.
ComputeAverage(sg) ==
    IF sg.count > 0 THEN SumTo(sg.buffer, sg.count) \div sg.count
                    ELSE SumTo(sg.buffer, sg.count)

(***************************************************************************)
(* The device /dev/mpu6050 and what producer.c makes of one record.        *)
(***************************************************************************)
\* One line of values as sscanf sees it: whether fgets returns it, how many
\* comma-separated numbers it begins with, and the unit that follows them.
Line(n, unit) == [present |-> TRUE, floats |-> n, unit |-> unit]
NoLine == [present |-> FALSE, floats |-> 0, unit |-> "none"]

\* The first line: whether fgets returns it and whether it is "IRQ count: <int>".
IrqLine(ok) == [present |-> TRUE, count |-> ok]
NoIrqLine == [present |-> FALSE, count |-> FALSE]

\* the record in the four-line format
GoodRecord ==
    [irq |-> IrqLine(TRUE), accel |-> Line(3, "g"), gyro |-> Line(3, "dps"),
     temp |-> Line(1, "C")]

\* the record cut after its first k lines
Truncated(k) ==
    [irq   |-> IF k >= 1 THEN GoodRecord.irq ELSE NoIrqLine,
     accel |-> IF k >= 2 THEN GoodRecord.accel ELSE NoLine,
     gyro  |-> IF k >= 3 THEN GoodRecord.gyro ELSE NoLine,
     temp  |-> NoLine]

\* the records of the model: the one in the format and those that deviate
\* from it in one place: cut short, a first line that is not an IRQ count, a
\* value line with a number too few, without its unit or with a wrong one
Records ==
    {GoodRecord}
    \cup {Truncated(k) : k \in 0..3}
    \cup {[GoodRecord EXCEPT !.irq = IrqLine(FALSE)]}
    \cup {[GoodRecord EXCEPT !.accel = l] : l \in {Line(2, "g"), Line(3, "none"), Line(3, "dps")}}
    \cup {[GoodRecord EXCEPT !.gyro = l] : l \in {Line(2, "dps"), Line(3, "none"), Line(3, "g")}}
    \cup {[GoodRecord EXCEPT !.temp = l] : l \in {Line(0, "C"), Line(1, "none"), Line(1, "g")}}

\* producer.c:89-129: the first line only has to be there (the result of its
\* sscanf is dropped, line 96); the accelerometer and gyroscope lines have to
\* begin with three numbers (" %f , %f , %f"), the temperature line with one
\* (" %f"); what follows the numbers is not looked at.
RecordParses(rec) ==
    /\ rec.irq.present
    /\ rec.accel.present /\ rec.accel.floats = 3
    /\ rec.gyro.present /\ rec.gyro.floats = 3
    /\ rec.temp.present /\ rec.temp.floats >= 1

\* the driver's output changes
DeviceWrite(rec) ==
    /\ rec # device
    /\ device' = rec
    /\ UNCHANGED <<segVars, prodVars, script, cfgfile, srvVars, cacheVars, readerVars,
                   mainVars, connVars, otherVars>>

(***************************************************************************)
(* Launch script, start.sh.                                                *)
(***************************************************************************)
\* start.sh:37-39 (or a launch by hand): the producer binary is started.
LaunchProducer ==
    /\ script = "running"
    /\ ppc \in {"off", "exited"}
    /\ ppc' = "shm_open"
    /\ prunning' = TRUE
    /\ pexit' = -1
    /\ UNCHANGED <<psample, pzero, written>>
    /\ UNCHANGED <<segVars, envVars, srvVars, cacheVars, readerVars, mainVars, connVars>>

\* start.sh:8-24: cleanup removes both names from /dev/shm.  Its two kill
\* commands are the signal actions ProdSignal and SrvSigTerm.
ScriptCleanup ==
    /\ script = "running"
    /\ script' = "cleaned"
    /\ UNCHANGED <<cfgfile, device, otherVars>>
    /\ shmExists' = FALSE
    /\ semExists' = FALSE
    /\ UNCHANGED <<sem, holders, seg>>
    /\ UNCHANGED <<prodVars, srvVars, cacheVars, readerVars, mainVars, connVars>>

(***************************************************************************)
(* Producer, producer.c main().                                            *)
(***************************************************************************)
prodFrame == UNCHANGED <<envVars, srvVars, cacheVars, readerVars, mainVars, connVars>>

\* producer.c:24-47: shm_open(O_CREAT), ftruncate, mmap.  A new object is
\* zero-filled by ftruncate, an existing one keeps its contents.
ProdShmOpen ==
    /\ ppc = "shm_open"
    /\ ppc' = "memset"
    /\ pzero' = Fields
    /\ written' = <<>>
    /\ shmExists' = TRUE
    /\ seg' = IF shmExists THEN seg ELSE ZeroSegment
    /\ UNCHANGED <<semExists, sem, holders, prunning, psample, pexit>>
    /\ prodFrame

\* producer.c:25-47, 54-60: shm_open, ftruncate, mmap or sem_open fails: return 1.
ProdStartFail ==
    /\ ppc \in {"shm_open", "sem_open"}
    /\ ppc' = "exited"
    /\ pexit' = 1
    /\ UNCHANGED <<prunning, psample, pzero, written>>
    /\ UNCHANGED segVars
    /\ prodFrame

\* producer.c:50: memset zeroes the segment; the bytes of one field at a step.
\* No semaphore is held: the semaphore is opened three lines later.
ProdMemset ==
    /\ ppc = "memset"
    /\ \E f \in pzero :
          /\ seg' = ZeroField(seg, f)
          /\ pzero' = pzero \ {f}
          /\ ppc' = IF pzero = {f} THEN "sem_open" ELSE "memset"
    /\ UNCHANGED <<shmExists, semExists, sem, holders, prunning, psample, pexit, written>>
    /\ prodFrame

\* Faulty variant of the opening of the semaphore, used to show that the
\* restart property depends on O_CREAT leaving an existing semaphore alone:
\* the value is set to 1 at every start.
ProdSemOpenResets ==
    /\ ppc = "sem_open"
    /\ ppc' = "loop"
    /\ semExists' = TRUE
    /\ sem' = 1
    /\ holders' = {}
    /\ UNCHANGED <<shmExists, seg, prunning, psample, pzero, pexit, written>>
    /\ prodFrame

\* producer.c:53: sem_open(O_CREAT, 0666, 1): the initial value is used only
\* when the semaphore does not exist yet.
ProdSemOpen ==
    /\ ppc = "sem_open"
    /\ ppc' = "loop"
    /\ semExists' = TRUE
    /\ sem' = IF semExists THEN sem ELSE 1
    /\ holders' = IF semExists THEN holders ELSE {}
    /\ UNCHANGED <<shmExists, seg, prunning, psample, pzero, pexit, written>>
    /\ prodFrame

\* Faulty variant of the loop test, used to show that the shutdown property
\* depends on it: the Producer starts its next cycle whatever the flag says.
ProdLoopIgnoresFlag ==
    /\ ppc = "loop"
    /\ ppc' = "read"
    /\ UNCHANGED <<prunning, psample, pzero, pexit, written>>
    /\ UNCHANGED segVars
    /\ prodFrame

\* producer.c:64: while (running)
ProdLoop ==
    /\ ppc = "loop"
    /\ ppc' = IF prunning THEN "read" ELSE "shutdown"
    /\ UNCHANGED <<prunning, psample, pzero, pexit, written>>
    /\ UNCHANGED segVars
    /\ prodFrame

\* Faulty variant of the failed read, used to show that the property of the
\* transient errors depends on the cycle being discarded: the Producer
\* treats the error as fatal and exits with code 1.
ProdReadFailExits ==
    /\ ppc = "read"
    /\ ppc' = "exited"
    /\ pexit' = 1
    /\ UNCHANGED <<prunning, psample, pzero, written>>
    /\ UNCHANGED segVars
    /\ prodFrame

\* producer.c:66-128: the device cannot be opened (open or fdopen fails,
\* whatever the device holds) or a line is missing or does not parse: the
\* cycle is discarded.
ProdReadFail ==
    /\ ppc = "read"
    /\ ppc' = "sleep"
    /\ UNCHANGED <<prunning, psample, pzero, pexit, written>>
    /\ UNCHANGED segVars
    /\ prodFrame

\* producer.c:66-130: one record read and parsed into `sample`.
ProdReadOk ==
    /\ ppc = "read"
    /\ RecordParses(device)
    /\ Len(written) < MaxWrites
    /\ \E s \in Samples : psample' = s
    /\ ppc' = "sem_wait"
    /\ UNCHANGED <<prunning, pzero, pexit, written>>
    /\ UNCHANGED segVars
    /\ prodFrame

\* producer.c:133: sem_wait(sem) acquires the semaphore.
ProdSemWait ==
    /\ ppc = "sem_wait"
    /\ sem > 0
    /\ sem' = sem - 1
    /\ holders' = holders \cup {"producer"}
    /\ ppc' = "append"
    /\ UNCHANGED <<shmExists, semExists, seg, prunning, psample, pzero, pexit, written>>
    /\ prodFrame

\* producer.c:135-138
ProdAppend ==
    /\ ppc = "append"
    /\ seg' = AppendSample(seg, psample)
    /\ written' = Append(written, psample)
    /\ ppc' = "average"
    /\ UNCHANGED <<shmExists, semExists, sem, holders, prunning, psample, pzero, pexit>>
    /\ prodFrame

\* producer.c:140-163
ProdAverage ==
    /\ ppc = "average"
    /\ seg' = [seg EXCEPT !.average = ComputeAverage(seg)]
    /\ ppc' = "sem_post"
    /\ UNCHANGED <<shmExists, semExists, sem, holders, prunning, psample, pzero, pexit, written>>
    /\ prodFrame

\* producer.c:165
ProdSemPost ==
    /\ ppc = "sem_post"
    /\ sem' = sem + 1
    /\ holders' = holders \ {"producer"}
    /\ ppc' = "sleep"
    /\ UNCHANGED <<shmExists, semExists, seg, prunning, psample, pzero, pexit, written>>
    /\ prodFrame

\* producer.c:70,81,93,105,116,126,172: usleep(REFRESH_MS * 1000), then the
\* next iteration.
ProdSleep ==
    /\ ppc = "sleep"
    /\ ppc' = "loop"
    /\ UNCHANGED <<prunning, psample, pzero, pexit, written>>
    /\ UNCHANGED segVars
    /\ prodFrame

\* producer.c:5-9, 16-21: SIGTERM/SIGINT handler, installed without
\* SA_RESTART.  A sem_wait blocked on a zero semaphore returns -1/EINTR;
\* its result is not checked (producer.c:133), so the Producer goes on.
ProdSignal ==
    /\ ppc \notin {"off", "exited"}
    /\ prunning' = FALSE
    /\ ppc' = IF ppc = "sem_wait" /\ sem = 0 THEN "append" ELSE ppc
    /\ UNCHANGED <<psample, pzero, pexit, written>>
    /\ UNCHANGED segVars
    /\ prodFrame

\* Faulty variant of the shutdown, used to show that the lifetime property of
\* the OS objects depends on it: the Producer unlinks both names.
ProdShutdownUnlink ==
    /\ ppc = "shutdown"
    /\ ppc' = "exited"
    /\ pexit' = 0
    /\ shmExists' = FALSE
    /\ semExists' = FALSE
    /\ UNCHANGED <<sem, holders, seg, prunning, psample, pzero, written>>
    /\ prodFrame

\* producer.c:175-181: sem_close, munmap, close, return 0.
ProdShutdown ==
    /\ ppc = "shutdown"
    /\ ppc' = "exited"
    /\ pexit' = 0
    /\ UNCHANGED <<prunning, psample, pzero, written>>
    /\ UNCHANGED segVars
    /\ prodFrame

ProducerNext ==
    \/ ProdShmOpen \/ ProdStartFail \/ ProdMemset \/ ProdSemOpen \/ ProdLoop
    \/ ProdReadFail \/ ProdReadOk \/ ProdSemWait \/ ProdAppend \/ ProdAverage
    \/ ProdSemPost \/ ProdSleep \/ ProdSignal \/ ProdShutdown

(***************************************************************************)
(* Server, part_002: main() up to the accept loop.                         *)
(***************************************************************************)
\* max_connections values the configuration store may hold.
FileLimits == (-1)..MaxLimit
NoFile == [readable |-> FALSE, parsed |-> 0, max_connections |-> 0, backlog |-> 0, port |-> 0]

\* a store fopen() can read: fscanf converts its first `parsed` lines
\* ("max_connections=%d", "backlog=%d", "port=%d", in this order) and fails
\* on the next one
File(parsed, k, b, p) ==
    [readable |-> TRUE, parsed |-> parsed, max_connections |-> k, backlog |-> b, port |-> p]

\* the stores the Server is started with: missing, or complete
CfgFiles == {NoFile} \cup {File(3, k, 5, 3737) : k \in FileLimits}

\* what the store can be rewritten to while the Server runs: removed, or
\* complete with the same or another port and backlog, or with a line that
\* does not convert after none, one or two that do
Stores ==
    CfgFiles \cup {File(3, k, 6, 3738) : k \in FileLimits}
             \cup {File(n, 0, 6, 3738) : n \in 0..2}

\* part_002:46 DEFAULT_SERVER_CONFIG
DEFAULT_SERVER_CONFIG == [max_connnections |-> 10, backlog |-> 5, port |-> 3737]

\* part_002:63-83: -1 when fopen fails; else the three fscanf calls store
\* straight into *server_config, one field per converted line, and stop at
\* the first line that does not convert (-2); 0 when all three converted.
read_config_from_file(server_config, file) ==
    IF ~file.readable
       THEN [rc |-> -1, cfg |-> server_config]
       ELSE [rc  |-> IF file.parsed < 3 THEN -2 ELSE 0,
             cfg |-> [max_connnections |-> IF file.parsed >= 1
                                              THEN file.max_connections
                                              ELSE server_config.max_connnections,
                      backlog |-> IF file.parsed >= 2 THEN file.backlog
                                                      ELSE server_config.backlog,
                      port |-> IF file.parsed >= 3 THEN file.port
                                                   ELSE server_config.port]]

\* Faulty variant of the load at start-up, used to show that the property of
\* the defaults depends on the fallback: what read_config_from_file left in
\* the struct is kept.
ReadConfigKeepsPartial(old) == read_config_from_file(old, cfgfile).cfg

\* part_002:526-530: main() falls back to the defaults when
\* read_config_from_file fails.
ReadConfig(old) ==
    LET r == read_config_from_file(old, cfgfile)
    IN  IF r.rc # 0 THEN DEFAULT_SERVER_CONFIG ELSE r.cfg

\* part_002:602-629: the listening socket is bound to config.port and
\* listens with config.backlog; before that there is none.
NoListener == [port |-> 0, backlog |-> 0]
Listening(cfg) == [port |-> cfg.port, backlog |-> cfg.backlog]

\* rc is the local of wait_for_new_data (part_002:217), 0 outside a call
NoHandler ==
    [pc |-> "none", path |-> "", sample |-> 0, avg |-> 0, spub |-> 0, apub |-> 0,
     last_version |-> 0, new_version |-> 0, rc |-> 0]

\* What sscanf("%15s %255s %15s") makes of the bytes one recv() returned: the
\* number n of tokens it scanned and the tokens (n = -1: no byte has arrived).
\* Tokens longer than the field widths are outside the model.
NoRequest == [n |-> -1, method |-> "", path |-> "", version |-> ""]

\* more: the peer has sent bytes after its request that were not read yet
NoSocket == [state |-> "idle", peer |-> "idle", rx |-> NoRequest, sent |-> <<>>,
             more |-> FALSE]

\* the Server process is alive: main() has been entered and has not returned
ServerAlive == apc \notin {"off", "exited"}

mainFrame == UNCHANGED <<segVars, prodVars, envVars, cacheVars, connVars>>

\* start.sh:44-46: the server binary is started.
SrvLaunch ==
    /\ script = "running"
    /\ apc = "off"
    /\ apc' = "config"
    /\ UNCHANGED <<acur, alocal, alimit, listener, sexit>>
    /\ UNCHANGED <<srvVars, readerVars>>
    /\ mainFrame

\* part_002:526-537: the configuration is read from the store, or the
\* defaults are used when read_config_from_file fails.
SrvConfig ==
    /\ apc = "config"
    /\ config' = ReadConfig(config)
    /\ apc' = "init_shm"
    /\ UNCHANGED <<acur, alocal, alimit, listener, sexit>>
    /\ UNCHANGED <<running, attached, pipe, active, readerVars>>
    /\ mainFrame

\* part_002:113-146, 540-544: init_shared_memory opens the existing objects
\* (no O_CREAT); when one of them is missing main returns 1.
SrvInitShm ==
    /\ apc = "init_shm"
    /\ IF shmExists /\ semExists
          THEN /\ attached' = TRUE
               /\ apc' = "create_reader"
               /\ sexit' = sexit
          ELSE /\ attached' = attached
               /\ apc' = "exited"
               /\ sexit' = 1
    /\ UNCHANGED <<acur, alocal, alimit, listener>>
    /\ UNCHANGED <<running, pipe, config, active, readerVars>>
    /\ mainFrame

\* part_002:548-556: data_reader_thread is created and detached.
SrvCreateReader ==
    /\ apc = "create_reader"
    /\ rpc' = "loop"
    /\ apc' = "pipe"
    /\ UNCHANGED <<acur, alocal, alimit, listener, sexit, rsample, ravg>>
    /\ UNCHANGED srvVars
    /\ mainFrame

\* part_002:563-600: the self-pipe is created (write end non-blocking, the
\* read end stays blocking) and handle_signal is installed.
SrvPipe ==
    /\ apc = "pipe"
    /\ pipe' = 0
    /\ apc' = "listen"
    /\ UNCHANGED <<acur, alocal, alimit, listener, sexit>>
    /\ UNCHANGED <<running, attached, config, active, readerVars>>
    /\ mainFrame

\* part_002:602-631: socket, bind to config.port, listen with config.backlog.
SrvListen ==
    /\ apc = "listen"
    /\ listener' = Listening(config)
    /\ apc' = "loop"
    /\ UNCHANGED <<acur, alocal, alimit, sexit>>
    /\ UNCHANGED <<srvVars, readerVars>>
    /\ mainFrame

\* the exit status a parent sees: the low eight bits of what main() returns
ExitStatus(ret) == ret % 256

\* part_002:550-555: pthread_create fails for data_reader_thread:
\* cleanup_shared_memory(), return 1
SrvCreateReaderFail ==
    /\ apc = "create_reader"
    /\ attached' = FALSE
    /\ apc' = "exited"
    /\ sexit' = ExitStatus(1)
    /\ UNCHANGED <<acur, alocal, alimit, listener>>
    /\ UNCHANGED <<running, pipe, config, active, readerVars>>
    /\ mainFrame

\* part_002:564-578: pipe() fails, or fcntl(F_GETFL) on its write end: return 1
SrvPipeFail ==
    /\ apc = "pipe"
    /\ apc' = "exited"
    /\ sexit' = ExitStatus(1)
    /\ UNCHANGED <<acur, alocal, alimit, listener>>
    /\ UNCHANGED <<srvVars, readerVars>>
    /\ mainFrame

\* part_002:603-629: socket(), bind() (the port is in use) or listen()
\* fails: return -1
SrvListenFail ==
    /\ apc = "listen"
    /\ apc' = "exited"
    /\ sexit' = ExitStatus(-1)
    /\ UNCHANGED <<acur, alocal, alimit, listener>>
    /\ UNCHANGED <<srvVars, readerVars>>
    /\ mainFrame

(***************************************************************************)
(* Server, part_002: data_reader_thread.                                   *)
(***************************************************************************)
readerFrame == UNCHANGED <<prodVars, envVars, mainVars, connVars>>

\* part_002:166-168: while (running), if (g_shared_data && g_sem)
RdLoop ==
    /\ ServerAlive
    /\ rpc = "loop"
    /\ (running /\ attached) => cache.version < MaxVersion
    /\ rpc' = IF ~running THEN "done" ELSE IF attached THEN "sem_wait" ELSE "sleep"
    /\ UNCHANGED <<rsample, ravg>>
    /\ UNCHANGED <<segVars, srvVars, cacheVars>>
    /\ readerFrame

\* part_002:172
RdSemWait ==
    /\ ServerAlive
    /\ rpc = "sem_wait"
    /\ sem > 0
    /\ sem' = sem - 1
    /\ holders' = holders \cup {"reader"}
    /\ rpc' = "copy_sample"
    /\ UNCHANGED <<shmExists, semExists, seg, rsample, ravg>>
    /\ UNCHANGED <<srvVars, cacheVars>>
    /\ readerFrame

\* part_002:173
RdCopySample ==
    /\ ServerAlive
    /\ rpc = "copy_sample"
    /\ rsample' = seg.current_sample
    /\ rpc' = "copy_avg"
    /\ UNCHANGED ravg
    /\ UNCHANGED <<segVars, srvVars, cacheVars>>
    /\ readerFrame

\* part_002:174
RdCopyAvg ==
    /\ ServerAlive
    /\ rpc = "copy_avg"
    /\ ravg' = seg.buffer[BUFFER_SIZE - 1]
    /\ rpc' = "sem_post"
    /\ UNCHANGED rsample
    /\ UNCHANGED <<segVars, srvVars, cacheVars>>
    /\ readerFrame

\* part_002:106-108, 172, 591-600: a signal whose handler only prints (the
\* default branch of handle_signal, e.g. SIGUSR1) is handled on
\* data_reader_thread while it is blocked in sem_wait on a zero semaphore.
\* The handler is installed with sa_flags = 0, so sem_wait returns
\* -1/EINTR without the semaphore; its result is not checked (part_002:172)
\* and the thread goes on to its copies.
RdSigOther ==
    /\ ServerAlive
    /\ rpc = "sem_wait"
    /\ sem = 0
    /\ rpc' = "copy_sample"
    /\ UNCHANGED <<rsample, ravg>>
    /\ UNCHANGED <<segVars, srvVars, cacheVars>>
    /\ readerFrame

\* part_002:172-175 after cleanup_shared_memory (148-160): the statements
\* of data_reader_thread that use g_sem or g_shared_data, executed when the
\* semaphore is closed and the segment unmapped (both pointers are NULL by
\* then).  The access faults: SIGSEGV ends the process with status
\* 128 + 11, whatever the thread held.  (The steps RdSemWait to RdSemPost,
\* which have no test of the pointers either, stand for an access that
\* goes through.)
RdUseAfterDetach ==
    /\ ServerAlive
    /\ ~attached
    /\ rpc \in {"sem_wait", "copy_sample", "copy_avg", "sem_post"}
    /\ rpc' = "done"
    /\ apc' = "exited"
    /\ sexit' = 139
    /\ UNCHANGED <<rsample, ravg, acur, alocal, alimit, listener>>
    /\ UNCHANGED <<segVars, srvVars, cacheVars, prodVars, envVars, connVars>>

\* Faulty variant of the release, used to show that the lock discipline
\* depends on it: data_reader_thread goes on to the cache mutex with the
\* semaphore still held.
RdSemPostSkipped ==
    /\ ServerAlive
    /\ rpc = "sem_post"
    /\ rpc' = "lock"
    /\ UNCHANGED <<rsample, ravg>>
    /\ UNCHANGED <<segVars, srvVars, cacheVars>>
    /\ readerFrame

\* part_002:175
RdSemPost ==
    /\ ServerAlive
    /\ rpc = "sem_post"
    /\ sem' = sem + 1
    /\ holders' = holders \ {"reader"}
    /\ rpc' = "lock"
    /\ UNCHANGED <<shmExists, semExists, seg, rsample, ravg>>
    /\ UNCHANGED <<srvVars, cacheVars>>
    /\ readerFrame

\* owners of g_cached_data.mutex other than the handler threads (1..MaxClients)
Free == 0
ReaderThread == -1

\* Faulty variant of the lock, used to show that the cache properties depend
\* on it: the lock is granted whoever owns the mutex.
MutexIgnored(t) == TRUE

\* pthread_mutex_lock(&g_cached_data.mutex) by thread t succeeds
MutexFree(t) == mutex = Free

\* part_002:177
RdLock ==
    /\ ServerAlive
    /\ rpc = "lock"
    /\ MutexFree(ReaderThread)
    /\ mutex' = ReaderThread
    /\ rpc' = "store_sample"
    /\ UNCHANGED <<cache, woken, pub, rsample, ravg>>
    /\ UNCHANGED <<segVars, srvVars>>
    /\ readerFrame

\* part_002:178
RdStoreSample ==
    /\ ServerAlive
    /\ rpc = "store_sample"
    /\ cache' = [cache EXCEPT !.current_sample = rsample]
    /\ pub' = [pub EXCEPT !.sample = cache.version + 1]
    /\ rpc' = "store_avg"
    /\ UNCHANGED <<mutex, woken, rsample, ravg>>
    /\ UNCHANGED <<segVars, srvVars>>
    /\ readerFrame

\* part_002:179
RdStoreAvg ==
    /\ ServerAlive
    /\ rpc = "store_avg"
    /\ cache' = [cache EXCEPT !.average = ravg]
    /\ pub' = [pub EXCEPT !.avg = cache.version + 1]
    /\ rpc' = "inc_version"
    /\ UNCHANGED <<mutex, woken, rsample, ravg>>
    /\ UNCHANGED <<segVars, srvVars>>
    /\ readerFrame

\* Faulty variant of the increment, used to show that the version properties
\* depend on it: a one-bit counter.
WrapVersion(v) == (v + 1) % 2

\* part_002:180: g_cached_data.version++
NextVersion(v) == v + 1

\* Faulty variant of the publication, used to show that the property of the
\* unconditional publication depends on the increment: the version advances
\* only when the Producer has appended to the segment.
RdIncVersionIfWritten ==
    /\ ServerAlive
    /\ rpc = "inc_version"
    /\ cache' = [cache EXCEPT !.version = IF written # <<>> THEN NextVersion(cache.version)
                                                             ELSE cache.version]
    /\ rpc' = "broadcast"
    /\ UNCHANGED <<mutex, woken, pub, rsample, ravg>>
    /\ UNCHANGED <<segVars, srvVars>>
    /\ readerFrame

RdIncVersion ==
    /\ ServerAlive
    /\ rpc = "inc_version"
    /\ cache' = [cache EXCEPT !.version = NextVersion(cache.version)]
    /\ rpc' = "broadcast"
    /\ UNCHANGED <<mutex, woken, pub, rsample, ravg>>
    /\ UNCHANGED <<segVars, srvVars>>
    /\ readerFrame

\* part_002:181: pthread_cond_broadcast wakes every thread blocked in
\* pthread_cond_timedwait.
RdBroadcast ==
    /\ ServerAlive
    /\ rpc = "broadcast"
    /\ woken' = woken \cup {c \in Conns : h[c].pc = "cv_wait"}
    /\ rpc' = "unlock"
    /\ UNCHANGED <<cache, mutex, pub, rsample, ravg>>
    /\ UNCHANGED <<segVars, srvVars>>
    /\ readerFrame

\* part_002:182
RdUnlock ==
    /\ ServerAlive
    /\ rpc = "unlock"
    /\ mutex' = Free
    /\ rpc' = "sleep"
    /\ UNCHANGED <<cache, woken, pub, rsample, ravg>>
    /\ UNCHANGED <<segVars, srvVars>>
    /\ readerFrame

\* part_002:184: usleep(REFRESH_MS * 1000)
RdSleep ==
    /\ ServerAlive
    /\ rpc = "sleep"
    /\ rpc' = "loop"
    /\ UNCHANGED <<rsample, ravg>>
    /\ UNCHANGED <<segVars, srvVars, cacheVars>>
    /\ readerFrame

ReaderNext ==
    \/ RdLoop \/ RdSemWait \/ RdCopySample \/ RdCopyAvg \/ RdSemPost \/ RdLock
    \/ RdStoreSample \/ RdStoreAvg \/ RdIncVersion \/ RdBroadcast \/ RdUnlock
    \/ RdSleep

(***************************************************************************)
(* Clients (peers of the TCP surface).                                     *)
(***************************************************************************)
\* request lines a peer may send: three tokens with any of the methods,
\* paths and versions below, or bytes that scan into fewer than three tokens
Methods  == {"GET", "POST"}
Paths    == {"/", "/json", "/events", "/jsonx"}
Versions == {"HTTP/1.1", "HTTP/1.0"}

RequestLine(m, p, v) == [n |-> 3, method |-> m, path |-> p, version |-> v]
Get(p) == RequestLine("GET", p, "HTTP/1.1")

Requests ==
    {RequestLine(m, p, v) : m \in Methods, p \in Paths, v \in Versions}
    \cup {[n |-> 0, method |-> "", path |-> "", version |-> ""],
          [n |-> 2, method |-> "GET", path |-> "/json", version |-> ""]}

\* the peer has closed its end (FIN) or reset the connection (RST)
PeerGone(c) == sock[c].peer \in {"closed", "reset"}

clientFrame ==
    UNCHANGED <<segVars, prodVars, envVars, srvVars, cacheVars, readerVars, mainVars, h>>

\* a peer connects: the connection waits in the listen queue
ClientConnect(c) ==
    /\ apc \in {"loop", "select", "accept", "check", "decide", "spawn", "drain"}
    /\ sock[c].state = "idle"
    /\ sock' = [sock EXCEPT ![c] = [NoSocket EXCEPT !.state = "backlog", !.peer = "open"]]
    /\ clientFrame

\* the peer sends its request
ClientSend(c) ==
    /\ sock[c].peer = "open"
    /\ sock[c].rx = NoRequest
    /\ \E r \in Requests : sock' = [sock EXCEPT ![c].rx = r]
    /\ clientFrame

\* the peer closes its end
ClientClose(c) ==
    /\ sock[c].peer = "open"
    /\ sock' = [sock EXCEPT ![c].peer = "closed"]
    /\ clientFrame

\* the peer resets the connection
ClientAbort(c) ==
    /\ sock[c].peer = "open"
    /\ sock' = [sock EXCEPT ![c].peer = "reset"]
    /\ clientFrame

\* the peer sends further bytes on an open stream
ClientSendMore(c) ==
    /\ sock[c].peer = "open"
    /\ h[c].pc \in {"sse_loop", "wait_lock", "wait_check", "cv_wait", "wait_version",
                    "wait_sample", "wait_avg", "wait_unlock", "sse_send"}
    /\ ~sock[c].more
    /\ sock' = [sock EXCEPT ![c].more = TRUE]
    /\ clientFrame

\* the Server has closed the connection and its handler (if any) is gone:
\* the endpoint may connect again
ClientReset(c) ==
    /\ sock[c].state \in {"closed", "refused"}
    /\ h[c].pc \in {"none", "done"}
    /\ sock' = [sock EXCEPT ![c] = NoSocket]
    /\ h' = [h EXCEPT ![c] = NoHandler]
    /\ UNCHANGED <<segVars, prodVars, envVars, srvVars, cacheVars, readerVars, mainVars>>

(***************************************************************************)
(* Server, part_002: the accept loop of main().                            *)
(***************************************************************************)
accFrame == UNCHANGED <<segVars, prodVars, envVars, cacheVars, readerVars>>

\* part_002:633: while (running)
AccLoop ==
    /\ apc = "loop"
    /\ apc' = IF running THEN "select" ELSE "shutdown"
    /\ UNCHANGED <<acur, alocal, alimit, listener, sexit>>
    /\ UNCHANGED <<srvVars, connVars>>
    /\ accFrame

\* part_002:643-662: select() returns when the self-pipe or the listening
\* socket is readable; the self-pipe is looked at first.
AccSelect ==
    /\ apc = "select"
    /\ pipe > 0 \/ \E c \in Conns : sock[c].state = "backlog"
    /\ apc' = IF pipe > 0 THEN "drain" ELSE "accept"
    /\ UNCHANGED <<acur, alocal, alimit, listener, sexit>>
    /\ UNCHANGED <<srvVars, connVars>>
    /\ accFrame

\* part_002:655-658: while (read(sigpipe_fds[0], buf, sizeof(buf)) > 0) {}
\* The read end is a blocking descriptor (only the write end was made
\* non-blocking, part_002:570-572): a read finds bytes and the loop goes on;
\* on an empty pipe the read blocks, it never returns 0 while the write end
\* is open.
AccDrainRead ==
    /\ apc = "drain"
    /\ pipe > 0
    /\ pipe' = 0
    /\ apc' = "drain"
    /\ UNCHANGED <<acur, alocal, alimit, listener, sexit>>
    /\ UNCHANGED <<running, attached, config, active, connVars>>
    /\ accFrame

\* part_002:664-675: accept() takes one connection from the listen queue.
AccAccept ==
    /\ apc = "accept"
    /\ \E c \in Conns :
          /\ sock[c].state = "backlog"
          /\ sock' = [sock EXCEPT ![c].state = "accepted"]
          /\ acur' = c
    /\ apc' = "check"
    /\ UNCHANGED <<alocal, alimit, listener, sexit, h>>
    /\ UNCHANGED srvVars
    /\ accFrame

\* part_002:678-679: active_connections = atomic_load(&g_active_connections)
\* and the first read of g_server_config.max_connnections (the test > 0)
AccCheck ==
    /\ apc = "check"
    /\ alocal' = active
    /\ alimit' = (config.max_connnections > 0)
    /\ apc' = "decide"
    /\ UNCHANGED <<acur, listener, sexit>>
    /\ UNCHANGED <<srvVars, connVars>>
    /\ accFrame

\* Faulty variant of the limit test, used to show that the admission bound
\* depends on it: the limit itself is still admitted.
RejectsAbove(cfg, n) ==
    \/ cfg.max_connnections > 0 /\ n > cfg.max_connnections
    \/ cfg.max_connnections = 0

\* Faulty variant of the limit test, used to show that the property of the
\* negative limit depends on the test == 0: every limit that is not positive
\* rejects.
RejectsNonPositive(cfg, n) ==
    \/ cfg.max_connnections > 0 /\ n >= cfg.max_connnections
    \/ cfg.max_connnections <= 0

\* part_002:679-680, 688: the two reject conditions
Rejects(cfg, n) ==
    \/ cfg.max_connnections > 0 /\ n >= cfg.max_connnections
    \/ cfg.max_connnections = 0

\* part_002:679-688: g_server_config.max_connnections is read for the test
\* > 0 (at the check), again for the comparison and again for the test == 0.
\* When no reload came in between, the three reads agree.  When the sign of
\* the limit changed after the first test: a first test that held leads to
\* the comparison, which holds against a limit that is now 0 or negative
\* (reject); a first test that failed leads to the test == 0, which fails
\* against a limit that is now positive (admit).
RejectsNow ==
    IF alimit = (config.max_connnections > 0)
       THEN Rejects(config, alocal)
       ELSE alimit

\* Faulty variant of the reject branch, used to show that the frame property
\* of a refusal depends on it: the branch releases a slot it never reserved.
AccRejectCounted ==
    /\ apc = "decide"
    /\ RejectsNow
    /\ sock' = [sock EXCEPT ![acur].state = "refused"]
    /\ active' = active - 1
    /\ acur' = 0
    /\ apc' = "loop"
    /\ UNCHANGED <<alocal, alimit, listener, sexit, h>>
    /\ UNCHANGED <<running, attached, pipe, config>>
    /\ accFrame

\* part_002:681-695: the connection is closed and freed, nothing else.
AccReject ==
    /\ apc = "decide"
    /\ RejectsNow
    /\ sock' = [sock EXCEPT ![acur].state = "refused"]
    /\ acur' = 0
    /\ apc' = "loop"
    /\ UNCHANGED <<alocal, alimit, listener, sexit, h>>
    /\ UNCHANGED srvVars
    /\ accFrame

\* part_002:696-700: the slot is reserved before the thread is created.
AccReserve ==
    /\ apc = "decide"
    /\ ~RejectsNow
    /\ active' = active + 1
    /\ apc' = "spawn"
    /\ UNCHANGED <<acur, alocal, alimit, listener, sexit>>
    /\ UNCHANGED <<running, attached, pipe, config, connVars>>
    /\ accFrame

\* part_002:701, 710: pthread_create succeeds, the handler thread starts.
AccSpawn ==
    /\ apc = "spawn"
    /\ h' = [h EXCEPT ![acur] = [NoHandler EXCEPT !.pc = "recv"]]
    /\ acur' = 0
    /\ apc' = "loop"
    /\ UNCHANGED <<alocal, alimit, listener, sexit, sock>>
    /\ UNCHANGED srvVars
    /\ accFrame

\* Faulty variant of the failed thread creation, used to show that the
\* counter invariant depends on the release: the reserved slot is kept.
AccSpawnFailLeaks ==
    /\ apc = "spawn"
    /\ sock' = [sock EXCEPT ![acur].state = "closed"]
    /\ acur' = 0
    /\ apc' = "loop"
    /\ UNCHANGED <<alocal, alimit, listener, sexit, h>>
    /\ UNCHANGED srvVars
    /\ accFrame

\* part_002:701-709: pthread_create fails: the slot is released, the
\* connection closed.
AccSpawnFail ==
    /\ apc = "spawn"
    /\ active' = active - 1
    /\ sock' = [sock EXCEPT ![acur].state = "closed"]
    /\ acur' = 0
    /\ apc' = "loop"
    /\ UNCHANGED <<alocal, alimit, listener, sexit, h>>
    /\ UNCHANGED <<running, attached, pipe, config>>
    /\ accFrame

\* part_002:714-718 with 148-160: the sockets and the pipe are closed and
\* cleanup_shared_memory unmaps the segment and closes the semaphore,
\* setting both pointers to NULL.  No thread is joined before (the reader
\* and the handlers are detached, part_002:556, 710).
AccCleanup ==
    /\ apc = "shutdown"
    /\ apc' = "return"
    /\ attached' = FALSE
    /\ pipe' = -1
    /\ UNCHANGED <<acur, alocal, alimit, listener, sexit>>
    /\ UNCHANGED <<running, config, active, connVars>>
    /\ accFrame

\* part_002:720: main returns 0, which ends the process and its threads.
AccShutdown ==
    /\ apc = "return"
    /\ apc' = "exited"
    /\ sexit' = 0
    /\ UNCHANGED <<acur, alocal, alimit, listener>>
    /\ UNCHANGED <<srvVars, connVars>>
    /\ accFrame

AcceptorNext ==
    \/ AccLoop \/ AccSelect \/ AccDrainRead \/ AccAccept \/ AccCheck \/ AccReject
    \/ AccReserve \/ AccSpawn \/ AccSpawnFail \/ AccCleanup \/ AccShutdown

(***************************************************************************)
(* Server, part_002: handle_signal for SIGTERM / SIGINT.                   *)
(***************************************************************************)
\* part_002:95-103 with 591-600 (sa_flags = 0): running = 0 and one byte is
\* written to the non-blocking write end of the self-pipe (dropped when the
\* pipe is full).  When the handler runs on the main thread a blocked
\* select() or read() returns -1/EINTR: select's EINTR continues the loop
\* (part_002:646-647), read's -1 ends the drain loop and breaks.
SrvSigTerm(onMain) ==
    /\ ServerAlive
    /\ pipe >= 0
    /\ running' = FALSE
    /\ pipe' = IF pipe < MaxPipe THEN pipe + 1 ELSE pipe
    /\ apc' = IF onMain /\ apc = "select" /\ pipe = 0
                        /\ ~\E c \in Conns : sock[c].state = "backlog"
                 THEN "loop"
              ELSE IF onMain /\ apc = "drain" /\ pipe = 0 THEN "shutdown"
              ELSE apc
    /\ UNCHANGED <<acur, alocal, alimit, listener, sexit>>
    /\ UNCHANGED <<attached, config, active, connVars>>
    /\ accFrame

SignalNext == \E onMain \in BOOLEAN : SrvSigTerm(onMain)

(***************************************************************************)
(* Server, part_002: handle_signal for SIGUSR2, and the store it reads.    *)
(***************************************************************************)
\* server_config.cfg is rewritten (or removed) while the Server runs
StoreWrite(file) ==
    /\ script = "running"
    /\ file # cfgfile
    /\ cfgfile' = file
    /\ UNCHANGED <<segVars, prodVars, script, device, srvVars, cacheVars, readerVars,
                   mainVars, connVars, otherVars>>

\* Faulty variant of the reload, used to show that the property of the
\* listening socket depends on the reload leaving it alone: the socket is set
\* up again with the reloaded port and backlog.
SrvSigUsr2Rebind(onMain) ==
    /\ ServerAlive
    /\ pipe >= 0
    /\ config' = read_config_from_file(config, cfgfile).cfg
    /\ listener' = IF apc \in {"off", "config", "init_shm", "create_reader", "pipe", "listen"}
                      THEN listener ELSE Listening(config')
    /\ UNCHANGED <<apc, acur, alocal, alimit, sexit>>
    /\ UNCHANGED <<running, attached, pipe, active, connVars>>
    /\ accFrame

\* Faulty variant of the reload, used to show that the property of a lowered
\* limit depends on the reload leaving the connections alone: admitted
\* connections are closed when they are more than the new limit allows.
SrvSigUsr2Evicts(onMain) ==
    /\ ServerAlive
    /\ pipe >= 0
    /\ config' = read_config_from_file(config, cfgfile).cfg
    /\ sock' = [c \in DOMAIN sock |->
                  IF /\ config'.max_connnections > 0
                     /\ active > config'.max_connnections
                     /\ sock[c].state = "accepted"
                     THEN [sock[c] EXCEPT !.state = "closed"]
                     ELSE sock[c]]
    /\ UNCHANGED <<apc, acur, alocal, alimit, listener, sexit>>
    /\ UNCHANGED <<running, attached, pipe, active, h>>
    /\ accFrame

\* part_002:88-93 with 591-600 (sa_flags = 0): read_config_from_file fills
\* g_server_config and its result is not looked at.  On the main thread a
\* blocked select() or read() returns -1/EINTR as for any handled signal.
SrvSigUsr2(onMain) ==
    /\ ServerAlive
    /\ pipe >= 0
    /\ config' = read_config_from_file(config, cfgfile).cfg
    /\ apc' = IF onMain /\ apc = "select" /\ pipe = 0
                        /\ ~\E c \in Conns : sock[c].state = "backlog"
                 THEN "loop"
              ELSE IF onMain /\ apc = "drain" /\ pipe = 0 THEN "shutdown"
              ELSE apc
    /\ UNCHANGED <<acur, alocal, alimit, listener, sexit>>
    /\ UNCHANGED <<running, attached, pipe, active, connVars>>
    /\ accFrame

ReloadNext == \E onMain \in BOOLEAN : SrvSigUsr2(onMain)

(***************************************************************************)
(* Server, part_002: conn_handler, get_cached_data, wait_for_new_data.     *)
(***************************************************************************)
\* one send() on a connection: a response header with its status and
\* Content-Type, a body, the SSE retry directive, or one SSE data frame with
\* the Sample/Average it carries (and the version it was taken at)
Header(status, type) == [kind |-> "header", status |-> status, type |-> type,
                         sample |-> 0, avg |-> 0, version |-> 0]
Body(type)  == [kind |-> "body", status |-> 0, type |-> type,
                sample |-> 0, avg |-> 0, version |-> 0]
Retry       == [kind |-> "retry", status |-> 0, type |-> "sse",
                sample |-> 0, avg |-> 0, version |-> 0]
Frame(hc)   == [kind |-> "frame", status |-> 0, type |-> "sse",
                sample |-> hc.sample, avg |-> hc.avg, version |-> hc.new_version]

\* Faulty variant of the routing, used to show that the routing property
\* depends on the exact comparison: a path that only begins like "/json"
\* is served like it.
RouteHeaderPrefix(path) ==
    IF path = "/" THEN Header(200, "html")
    ELSE IF path \in {"/json", "/jsonx"} THEN Header(200, "json")
    ELSE IF path = "/events" THEN Header(200, "sse")
    ELSE Header(404, "html")

\* part_002:282-492: the response header chosen by exact match of the path
RouteHeader(path) ==
    IF path = "/" THEN Header(200, "html")
    ELSE IF path = "/json" THEN Header(200, "json")
    ELSE IF path = "/events" THEN Header(200, "sse")
    ELSE Header(404, "html")

\* ETIMEDOUT of pthread_cond_timedwait
ETIMEDOUT == 110

hFrame ==
    UNCHANGED <<segVars, prodVars, envVars, readerVars, mainVars,
                running, attached, pipe, config>>

\* send() with MSG_NOSIGNAL can fail only once the peer is gone
SendMayFail(c) == PeerGone(c)

\* Faulty variant of the read of the request, used to show that the property
\* of the status lines depends on the silent close: a request that does not
\* parse is answered with a 400 status line.
HRecvBadRequest(c) ==
    /\ ServerAlive
    /\ h[c].pc = "recv"
    /\ sock[c].rx # NoRequest \/ PeerGone(c)
    /\ IF sock[c].rx.n # 3
          THEN /\ sock' = [sock EXCEPT ![c].state = "closed",
                                       ![c].sent = Append(@, Header(400, "html"))]
               /\ h' = [h EXCEPT ![c].pc = "out"]
          ELSE /\ sock' = sock
               /\ h' = [h EXCEPT ![c].pc = "get_lock", ![c].path = sock[c].rx.path]
    /\ UNCHANGED <<active, cacheVars>>
    /\ hFrame

\* part_002:238-253: one recv(); an empty read (the peer closed), a failed
\* read (the peer reset), or bytes that do not scan into three tokens, close
\* the connection.
HRecv(c) ==
    /\ ServerAlive
    /\ h[c].pc = "recv"
    /\ sock[c].rx # NoRequest \/ PeerGone(c)
    /\ IF sock[c].rx.n # 3
          THEN /\ sock' = [sock EXCEPT ![c].state = "closed"]
               /\ h' = [h EXCEPT ![c].pc = "out"]
          ELSE /\ sock' = sock
               /\ h' = [h EXCEPT ![c].pc = "get_lock", ![c].path = sock[c].rx.path]
    /\ UNCHANGED <<active, cacheVars>>
    /\ hFrame

\* part_002:192 / 214: pthread_mutex_lock(&g_cached_data.mutex)
HLock(c) ==
    /\ ServerAlive
    /\ h[c].pc \in {"get_lock", "wait_lock"}
    /\ MutexFree(c)
    /\ mutex' = c
    /\ h' = [h EXCEPT ![c].pc = IF h[c].pc = "get_lock" THEN "get_sample" ELSE "wait_check"]
    /\ UNCHANGED <<active, cache, woken, pub, sock>>
    /\ hFrame

\* part_002:193-194 / 222-223: *sample = g_cached_data.current_sample
HCopySample(c) ==
    /\ ServerAlive
    /\ h[c].pc \in {"get_sample", "wait_sample"}
    /\ h' = [h EXCEPT ![c].sample = cache.current_sample,
                      ![c].spub = pub.sample,
                      ![c].pc = IF h[c].pc = "get_sample" THEN "get_avg" ELSE "wait_avg"]
    /\ UNCHANGED <<active, cacheVars, sock>>
    /\ hFrame

\* part_002:195-196 / 224-225: *avg = g_cached_data.average
HCopyAvg(c) ==
    /\ ServerAlive
    /\ h[c].pc \in {"get_avg", "wait_avg"}
    /\ h' = [h EXCEPT ![c].avg = cache.average,
                      ![c].apub = pub.avg,
                      ![c].pc = IF h[c].pc = "get_avg" THEN "get_unlock" ELSE "wait_unlock"]
    /\ UNCHANGED <<active, cacheVars, sock>>
    /\ hFrame

\* part_002:197: end of get_cached_data; the handler goes on to its route.
HGetUnlock(c) ==
    /\ ServerAlive
    /\ h[c].pc = "get_unlock"
    /\ mutex' = Free
    /\ h' = [h EXCEPT ![c].pc = "respond"]
    /\ UNCHANGED <<active, cache, woken, pub, sock>>
    /\ hFrame

\* part_002:282-358, 476-513: the header of the route is sent.  For "/",
\* "/json" and 404 a short or failed send closes the connection; for
\* "/events" a failed send does.
HSendHeader(c) ==
    /\ ServerAlive
    /\ h[c].pc = "respond"
    /\ \/ /\ sock' = [sock EXCEPT ![c].sent = Append(@, RouteHeader(h[c].path))]
          /\ h' = [h EXCEPT ![c].pc = IF h[c].path = "/events" THEN "sse_retry" ELSE "body"]
       \/ /\ SendMayFail(c)
          /\ sock' = [sock EXCEPT ![c].state = "closed"]
          /\ h' = [h EXCEPT ![c].pc = "out"]
    /\ UNCHANGED <<active, cacheVars>>
    /\ hFrame

\* Faulty variant of the send of the body, used to show that the isolation
\* of a connection depends on SIGPIPE being ignored: a send to a peer that is
\* gone raises the signal into handle_signal, which clears running.
HSendBodySigpipe(c) ==
    /\ ServerAlive
    /\ h[c].pc = "body"
    /\ \/ /\ sock' = [sock EXCEPT ![c].sent = Append(@, Body(RouteHeader(h[c].path).type)),
                                  ![c].state = "closed"]
          /\ running' = running
       \/ /\ SendMayFail(c)
          /\ sock' = [sock EXCEPT ![c].state = "closed"]
          /\ running' = FALSE
    /\ h' = [h EXCEPT ![c].pc = "out"]
    /\ UNCHANGED <<active, cacheVars>>
    /\ UNCHANGED <<segVars, prodVars, envVars, readerVars, mainVars, attached, pipe, config>>

\* Faulty variant of the send of the body, used to show that the property of
\* the connection's states depends on the close before the exit label: the
\* handler leaves with the socket still open.
HSendBodyNoClose(c) ==
    /\ ServerAlive
    /\ h[c].pc = "body"
    /\ \/ sock' = [sock EXCEPT ![c].sent = Append(@, Body(RouteHeader(h[c].path).type))]
       \/ /\ SendMayFail(c)
          /\ sock' = sock
    /\ h' = [h EXCEPT ![c].pc = "out"]
    /\ UNCHANGED <<active, cacheVars>>
    /\ hFrame

\* part_002:514-517: the body is sent (its result is ignored) and the
\* connection closed.
HSendBody(c) ==
    /\ ServerAlive
    /\ h[c].pc = "body"
    /\ \/ sock' = [sock EXCEPT ![c].sent = Append(@, Body(RouteHeader(h[c].path).type)),
                               ![c].state = "closed"]
       \/ /\ SendMayFail(c)
          /\ sock' = [sock EXCEPT ![c].state = "closed"]
    /\ h' = [h EXCEPT ![c].pc = "out"]
    /\ UNCHANGED <<active, cacheVars>>
    /\ hFrame

\* part_002:351-384: the retry directive is sent, then the epoll instance is
\* set up and last_version starts at 0; a failed send, epoll_create1 or
\* epoll_ctl closes the connection.
HSseRetry(c) ==
    /\ ServerAlive
    /\ h[c].pc = "sse_retry"
    /\ \/ /\ sock' = [sock EXCEPT ![c].sent = Append(@, Retry)]
          /\ h' = [h EXCEPT ![c].pc = "sse_loop", ![c].last_version = 0]
       \/ /\ SendMayFail(c)
          /\ sock' = [sock EXCEPT ![c].state = "closed"]
          /\ h' = [h EXCEPT ![c].pc = "out"]
       \/ /\ sock' = [sock EXCEPT ![c].sent = Append(@, Retry), ![c].state = "closed"]
          /\ h' = [h EXCEPT ![c].pc = "out"]
    /\ UNCHANGED <<active, cacheVars>>
    /\ hFrame

\* Faulty variant of the loop head, used to show that the termination
\* property of the stream depends on it: a hang-up or an error is not looked at.
HSseLoopIgnoresPeer(c) ==
    /\ ServerAlive
    /\ h[c].pc = "sse_loop"
    /\ IF ~running
          THEN /\ sock' = [sock EXCEPT ![c].state = "closed"]
               /\ h' = [h EXCEPT ![c].pc = "out"]
          ELSE IF sock[c].more
          THEN /\ sock' = sock
               /\ h' = [h EXCEPT ![c].pc = "sse_drain"]
          ELSE /\ sock' = sock
               /\ h' = [h EXCEPT ![c].pc = "wait_lock"]
    /\ UNCHANGED <<active, cacheVars>>
    /\ hFrame

\* part_002:386-441, 469-474: while (running); epoll_wait with a 10 ms
\* timeout.  EPOLLRDHUP, EPOLLHUP or EPOLLERR (the peer closed or reset) ends
\* the loop; EPOLLIN alone leads to the drain of the input; a timeout leads to
\* wait_for_new_data.  After the loop the epoll handle and the socket are
\* closed.
HSseLoop(c) ==
    /\ ServerAlive
    /\ h[c].pc = "sse_loop"
    /\ IF ~running \/ PeerGone(c)
          THEN /\ sock' = [sock EXCEPT ![c].state = "closed"]
               /\ h' = [h EXCEPT ![c].pc = "out"]
          ELSE IF sock[c].more
          THEN /\ sock' = sock
               /\ h' = [h EXCEPT ![c].pc = "sse_drain"]
          ELSE /\ sock' = sock
               /\ h' = [h EXCEPT ![c].pc = "wait_lock"]
    /\ UNCHANGED <<active, cacheVars>>
    /\ hFrame

\* part_002:441-466: the input is drained with non-blocking recv() calls.
\* Whatever they return (data, EAGAIN, 0 at end-of-file, ECONNRESET) only the
\* inner for loop is left and the while loop goes on.
HSseDrain(c) ==
    /\ ServerAlive
    /\ h[c].pc = "sse_drain"
    /\ sock' = [sock EXCEPT ![c].more = FALSE]
    /\ h' = [h EXCEPT ![c].pc = "sse_loop"]
    /\ UNCHANGED <<active, cacheVars>>
    /\ hFrame

\* part_002:215-220: while (version == last_version && running) the thread
\* enters pthread_cond_timedwait, which releases the mutex.
HWaitCheck(c) ==
    /\ ServerAlive
    /\ h[c].pc = "wait_check"
    /\ IF cache.version = h[c].last_version /\ running
          THEN /\ mutex' = Free
               /\ h' = [h EXCEPT ![c].pc = "cv_wait"]
          ELSE /\ mutex' = mutex
               /\ h' = [h EXCEPT ![c].pc = "wait_version"]
    /\ UNCHANGED <<active, cache, woken, pub, sock>>
    /\ hFrame

\* Faulty variant of the wake-up, used to show that the contract of
\* wait_for_new_data depends on the loop around the wait: any wake-up returns.
HCvWakeReturns(c) ==
    /\ ServerAlive
    /\ h[c].pc = "cv_wait"
    /\ MutexFree(c)
    /\ mutex' = c
    /\ woken' = woken \ {c}
    /\ \E rc \in {0, ETIMEDOUT} :
          h' = [h EXCEPT ![c].rc = rc, ![c].pc = "wait_version"]
    /\ UNCHANGED <<active, cache, pub, sock>>
    /\ hFrame

\* part_002:217-219: pthread_cond_timedwait returns with the mutex held
\* again: after a broadcast or a spurious wake-up (rc = 0, the condition is
\* tested again) or at the deadline (rc = ETIMEDOUT, break).
HCvWake(c) ==
    /\ ServerAlive
    /\ h[c].pc = "cv_wait"
    /\ MutexFree(c)
    /\ mutex' = c
    /\ woken' = woken \ {c}
    /\ \E rc \in {0, ETIMEDOUT} :
          h' = [h EXCEPT ![c].rc = rc,
                         ![c].pc = IF rc = ETIMEDOUT THEN "wait_version" ELSE "wait_check"]
    /\ UNCHANGED <<active, cache, pub, sock>>
    /\ hFrame

\* part_002:221: new_version = g_cached_data.version
HWaitVersion(c) ==
    /\ ServerAlive
    /\ h[c].pc = "wait_version"
    /\ h' = [h EXCEPT ![c].new_version = cache.version, ![c].pc = "wait_sample"]
    /\ UNCHANGED <<active, cacheVars, sock>>
    /\ hFrame

\* Faulty variant of the return of wait_for_new_data, used to show that the
\* order of the stream depends on the comparison made by the caller: a frame
\* is formatted after every return.
HWaitUnlockAlways(c) ==
    /\ ServerAlive
    /\ h[c].pc = "wait_unlock"
    /\ mutex' = Free
    /\ h' = [h EXCEPT ![c].pc = "sse_send", ![c].rc = 0,
                      ![c].last_version = h[c].new_version]
    /\ UNCHANGED <<active, cache, woken, pub, sock>>
    /\ hFrame

\* part_002:226-227, 402-405: wait_for_new_data unlocks and returns; the
\* caller continues the loop when the version did not change, else records
\* it and formats a frame.
HWaitUnlock(c) ==
    /\ ServerAlive
    /\ h[c].pc = "wait_unlock"
    /\ mutex' = Free
    /\ h' = IF h[c].new_version = h[c].last_version
               THEN [h EXCEPT ![c].pc = "sse_loop", ![c].rc = 0]
               ELSE [h EXCEPT ![c].pc = "sse_send", ![c].rc = 0,
                              ![c].last_version = h[c].new_version]
    /\ UNCHANGED <<active, cache, woken, pub, sock>>
    /\ hFrame

\* part_002:407-430, 469-474: one data frame is sent; a failed send ends the
\* loop and closes the connection.
HSseSend(c) ==
    /\ ServerAlive
    /\ h[c].pc = "sse_send"
    /\ \/ /\ sock' = [sock EXCEPT ![c].sent = Append(@, Frame(h[c]))]
          /\ h' = [h EXCEPT ![c].pc = "sse_loop"]
       \/ /\ SendMayFail(c)
          /\ sock' = [sock EXCEPT ![c].state = "closed"]
          /\ h' = [h EXCEPT ![c].pc = "out"]
    /\ UNCHANGED <<active, cacheVars>>
    /\ hFrame

\* part_002:56-61, 518-520: pthread_cleanup_pop(1) runs
\* conn_active_dec_cleanup, the thread ends.
HOut(c) ==
    /\ ServerAlive
    /\ h[c].pc = "out"
    /\ active' = active - 1
    /\ h' = [h EXCEPT ![c].pc = "done"]
    /\ UNCHANGED <<cacheVars, sock>>
    /\ hFrame

HandlerNext ==
    \E c \in Conns :
        \/ HRecv(c) \/ HLock(c) \/ HCopySample(c) \/ HCopyAvg(c) \/ HGetUnlock(c)
        \/ HSendHeader(c) \/ HSendBody(c) \/ HSseRetry(c) \/ HSseLoop(c)
        \/ HWaitCheck(c) \/ HCvWake(c) \/ HWaitVersion(c) \/ HWaitUnlock(c)
        \/ HSseSend(c) \/ HOut(c)

(***************************************************************************)
(* Initial state: nothing has been started, no OS object exists.           *)
(***************************************************************************)
\* no Producer has run: no OS object exists
ProducerOff ==
    /\ shmExists = FALSE /\ semExists = FALSE /\ sem = 0 /\ holders = {}
    /\ seg = ZeroSegment
    /\ ppc = "off" /\ prunning = TRUE /\ psample = 0 /\ pzero = {} /\ pexit = -1
    /\ written = <<>>

\* the Producer has created and initialised the segment (producer.c:24-60)
\* and sleeps between two cycles in which the device gave no record
SegmentReady ==
    /\ shmExists = TRUE /\ semExists = TRUE /\ sem = 1 /\ holders = {}
    /\ seg = ZeroSegment
    /\ ppc = "sleep" /\ prunning = TRUE /\ psample = 0 /\ pzero = {} /\ pexit = -1
    /\ written = <<>>

\* the server binary has not been started (part_002:40-54: the statics)
ServerOff ==
    /\ running = TRUE /\ attached = FALSE /\ pipe = -1
    /\ config = DEFAULT_SERVER_CONFIG
    /\ active = 0
    /\ cache = [current_sample |-> 0, average |-> 0, version |-> 0]
    /\ mutex = Free /\ woken = {} /\ pub = [sample |-> 0, avg |-> 0]
    /\ rpc = "off" /\ rsample = 0 /\ ravg = 0
    /\ apc = "off" /\ acur = 0 /\ alocal = 0 /\ alimit = FALSE /\ sexit = -1
    /\ listener = NoListener
    /\ sock = [c \in Conns |-> NoSocket]
    /\ h = [c \in Conns |-> NoHandler]

\* no response is being formatted outside conn_handler's model of it, and
\* the kernel modules of the other examples are not loaded
NoResponse == [pc |-> "off", path |-> "", sdig |-> 0, adig |-> 0,
               body_len |-> 0, header_len |-> 0, content_length |-> 0,
               hsent |-> -1, bsent |-> -1]

OthersOff ==
    /\ fmt = NoResponse
    /\ i2c = "off"
    /\ gpio = "off"

\* the configuration store is missing: the Server would run on its defaults
Init ==
    /\ cfgfile = NoFile
    /\ script = "running"
    /\ device = GoodRecord
    /\ OthersOff
    /\ ProducerOff
    /\ ServerOff

(***************************************************************************)
(* SpecRing: the Producer and the launch script around the shared segment. *)
(***************************************************************************)
NextRing == LaunchProducer \/ ScriptCleanup \/ ProducerNext

SpecRing == Init /\ [][NextRing]_vars

(***************************************************************************)
(* SpecSeg: the Producer and the Server's data_reader_thread around the    *)
(* shared segment (no client connects, no signal reaches the Server).      *)
(***************************************************************************)
NextSeg ==
    \/ LaunchProducer \/ ProducerNext
    \/ SrvLaunch \/ SrvConfig \/ SrvInitShm \/ SrvCreateReader \/ SrvPipe \/ SrvListen
    \/ ReaderNext

SpecSeg == Init /\ [][NextSeg]_vars

(***************************************************************************)
(* SpecAdm: the Server's accept loop next to an initialised, idle segment: *)
(* startup, admission control, the termination signal, and peers that      *)
(* connect and later close without sending a request, so that a handler    *)
(* lives exactly as long as its peer stays connected.                      *)
(* data_reader_thread is created but not scheduled.                        *)
(***************************************************************************)
InitAdm ==
    /\ cfgfile \in CfgFiles
    /\ script = "running"
    /\ device = GoodRecord
    /\ OthersOff
    /\ SegmentReady
    /\ ServerOff

NextAdm ==
    \/ SrvLaunch \/ SrvConfig \/ SrvInitShm \/ SrvCreateReader \/ SrvPipe \/ SrvListen
    \/ AcceptorNext \/ SignalNext
    \/ \E c \in Conns :
          ClientConnect(c) \/ ClientClose(c) \/ ClientReset(c) \/ HRecv(c) \/ HOut(c)

\* main() is scheduled: it takes its next step whenever it has one
MainNext ==
    \/ SrvConfig \/ SrvInitShm \/ SrvCreateReader \/ SrvPipe \/ SrvListen
    \/ AcceptorNext

SpecAdm == InitAdm /\ [][NextAdm]_vars /\ WF_vars(MainNext)

(***************************************************************************)
(* SpecCache: data_reader_thread and the handlers of connections 1 to      *)
(* MaxReaders around the cache.  It starts when the Server, running on its *)
(* defaults next to an initialised segment, has admitted these             *)
(* connections, each peer has sent its request, and the handlers are about *)
(* to read it.                                                             *)
(***************************************************************************)
Readers == 1..MaxReaders

\* the requests of these peers: a one-shot route and the stream
CacheRequests == {Get("/json"), Get("/events")}

InitCache ==
    /\ cfgfile = NoFile
    /\ script = "running"
    /\ device = GoodRecord
    /\ OthersOff
    /\ SegmentReady
    /\ running = TRUE /\ attached = TRUE /\ pipe = 0
    /\ config = DEFAULT_SERVER_CONFIG
    /\ active = MaxReaders
    /\ cache = [current_sample |-> 0, average |-> 0, version |-> 0]
    /\ mutex = Free /\ woken = {} /\ pub = [sample |-> 0, avg |-> 0]
    /\ rpc = "loop" /\ rsample = 0 /\ ravg = 0
    /\ apc = "select" /\ acur = 0 /\ alocal = MaxReaders - 1 /\ alimit = TRUE /\ sexit = -1
    /\ listener = Listening(DEFAULT_SERVER_CONFIG)
    /\ \E req \in [Readers -> CacheRequests] :
          sock = [c \in Conns |->
                    IF c \in Readers
                       THEN [NoSocket EXCEPT !.state = "accepted", !.peer = "open",
                                             !.rx = req[c]]
                       ELSE NoSocket]
    /\ h = [c \in Conns |->
                 IF c \in Readers THEN [NoHandler EXCEPT !.pc = "recv"] ELSE NoHandler]

NextCache ==
    \/ ReaderNext
    \/ HandlerNext
    \/ \E c \in Conns : ClientClose(c)

SpecCache == InitCache /\ [][NextCache]_vars

(***************************************************************************)
(* SpecConn: one admitted connection from the arrival of its request to    *)
(* the end of its handler, next to data_reader_thread and the termination  *)
(* signal.  The peer may send any request, close, reset, or send further   *)
(* bytes on the stream.  It starts like SpecCache, with connection 1       *)
(* admitted and nothing received yet.                                      *)
(***************************************************************************)
InitConn ==
    /\ cfgfile = NoFile
    /\ script = "running"
    /\ device = GoodRecord
    /\ OthersOff
    /\ SegmentReady
    /\ running = TRUE /\ attached = TRUE /\ pipe = 0
    /\ config = DEFAULT_SERVER_CONFIG
    /\ active = 1
    /\ cache = [current_sample |-> 0, average |-> 0, version |-> 0]
    /\ mutex = Free /\ woken = {} /\ pub = [sample |-> 0, avg |-> 0]
    /\ rpc = "loop" /\ rsample = 0 /\ ravg = 0
    /\ apc = "select" /\ acur = 0 /\ alocal = 0 /\ alimit = TRUE /\ sexit = -1
    /\ listener = Listening(DEFAULT_SERVER_CONFIG)
    /\ sock = [c \in Conns |->
                 IF c = 1 THEN [NoSocket EXCEPT !.state = "accepted", !.peer = "open"]
                          ELSE NoSocket]
    /\ h = [c \in Conns |-> IF c = 1 THEN [NoHandler EXCEPT !.pc = "recv"] ELSE NoHandler]

NextConn ==
    \/ ReaderNext
    \/ HandlerNext
    \/ SignalNext
    \/ \E c \in Conns :
          \/ HSseDrain(c)
          \/ ClientSend(c) \/ ClientClose(c) \/ ClientAbort(c) \/ ClientSendMore(c)

SpecConn == InitConn /\ [][NextConn]_vars

(***************************************************************************)
(* SpecIso: two admitted connections.  Connection 1 asked for "/events"    *)
(* and its peer stays; the peer of connection 2 sends a request line that  *)
(* does not parse or asks for "/json", closes or resets, so that its       *)
(* handler meets every per-connection error next to a running stream.      *)
(***************************************************************************)
Stream == 1
Other == 2
OtherRequests == {r \in Requests : r.n = 2} \cup {Get("/json")}

InitIso ==
    /\ cfgfile = NoFile
    /\ script = "running"
    /\ device = GoodRecord
    /\ OthersOff
    /\ SegmentReady
    /\ running = TRUE /\ attached = TRUE /\ pipe = 0
    /\ config = DEFAULT_SERVER_CONFIG
    /\ active = 2
    /\ cache = [current_sample |-> 0, average |-> 0, version |-> 0]
    /\ mutex = Free /\ woken = {} /\ pub = [sample |-> 0, avg |-> 0]
    /\ rpc = "loop" /\ rsample = 0 /\ ravg = 0
    /\ apc = "select" /\ acur = 0 /\ alocal = 1 /\ alimit = TRUE /\ sexit = -1
    /\ listener = Listening(DEFAULT_SERVER_CONFIG)
    /\ sock = [c \in Conns |->
                 IF c = Stream
                    THEN [NoSocket EXCEPT !.state = "accepted", !.peer = "open",
                                          !.rx = Get("/events")]
                 ELSE IF c = Other
                    THEN [NoSocket EXCEPT !.state = "accepted", !.peer = "open"]
                 ELSE NoSocket]
    /\ h = [c \in Conns |-> IF c \in {Stream, Other} THEN [NoHandler EXCEPT !.pc = "recv"]
                                                     ELSE NoHandler]

NextIso ==
    \/ ReaderNext
    \/ HandlerNext
    \/ SignalNext
    \/ ClientSend(Other) /\ sock'[Other].rx \in OtherRequests
    \/ ClientClose(Other)
    \/ ClientAbort(Other)

SpecIso == InitIso /\ [][NextIso]_vars

(***************************************************************************)
(* SpecCfg: the Server from its launch until a termination signal, with    *)
(* two peers that connect and close without sending, the store being       *)
(* rewritten and the reload signal.                                        *)
(***************************************************************************)
CfgConns == {1, 2}

NextCfg ==
    \/ SrvLaunch \/ SrvConfig \/ SrvInitShm \/ SrvCreateReader \/ SrvPipe \/ SrvListen
    \/ AccLoop \/ AccSelect \/ AccAccept \/ AccCheck \/ AccReject
    \/ AccReserve \/ AccSpawn \/ AccSpawnFail
    \/ ReloadNext
    \/ \E file \in Stores : StoreWrite(file)
    \/ \E c \in CfgConns : ClientConnect(c) \/ ClientClose(c) \/ HRecv(c) \/ HOut(c)

SpecCfg == InitAdm /\ [][NextCfg]_vars

(***************************************************************************)
(* SpecExit: the Server from its launch to its exit, next to a segment     *)
(* that exists or not, with the start-up steps that can fail, silent       *)
(* peers and the termination signal.                                       *)
(***************************************************************************)
InitExit ==
    /\ cfgfile \in CfgFiles
    /\ script = "running"
    /\ device = GoodRecord
    /\ OthersOff
    /\ ProducerOff \/ SegmentReady
    /\ ServerOff

NextExit ==
    \/ SrvLaunch \/ SrvConfig \/ SrvInitShm
    \/ SrvCreateReader \/ SrvCreateReaderFail
    \/ SrvPipe \/ SrvPipeFail
    \/ SrvListen \/ SrvListenFail
    \/ AcceptorNext \/ SignalNext
    \/ \E c \in Conns :
          ClientConnect(c) \/ ClientClose(c) \/ ClientReset(c) \/ HRecv(c) \/ HOut(c)

SpecExit == InitExit /\ [][NextExit]_vars

(***************************************************************************)
(* SpecDev: SpecRing with a device whose record changes.                   *)
(***************************************************************************)
NextDev ==
    \/ NextRing
    \/ \E rec \in Records : DeviceWrite(rec)

SpecDev == Init /\ [][NextDev]_vars

(***************************************************************************)
(* SpecFlow: the cycles of the Producer next to data_reader_thread, from   *)
(* the state in which the segment is initialised and the Server has        *)
(* attached to it; data_reader_thread is scheduled fairly.                 *)
(***************************************************************************)
InitFlow ==
    /\ cfgfile = NoFile
    /\ script = "running"
    /\ device = GoodRecord
    /\ OthersOff
    /\ SegmentReady
    /\ running = TRUE /\ attached = TRUE /\ pipe = 0
    /\ config = DEFAULT_SERVER_CONFIG
    /\ active = 0
    /\ cache = [current_sample |-> 0, average |-> 0, version |-> 0]
    /\ mutex = Free /\ woken = {} /\ pub = [sample |-> 0, avg |-> 0]
    /\ rpc = "loop" /\ rsample = 0 /\ ravg = 0
    /\ apc = "select" /\ acur = 0 /\ alocal = 0 /\ alimit = FALSE /\ sexit = -1
    /\ listener = Listening(DEFAULT_SERVER_CONFIG)
    /\ sock = [c \in Conns |-> NoSocket]
    /\ h = [c \in Conns |-> NoHandler]

ProducerCycle ==
    \/ ProdLoop \/ ProdReadFail \/ ProdReadOk \/ ProdSemWait \/ ProdAppend
    \/ ProdAverage \/ ProdSemPost \/ ProdSleep

NextFlow == ProducerCycle \/ ReaderNext

SpecFlow == InitFlow /\ [][NextFlow]_vars /\ WF_vars(ReaderNext)

(***************************************************************************)
(* SpecLock: the two locks together.  The Producer runs its cycles (its    *)
(* samples all have the value 1) and data_reader_thread may be interrupted *)
(* in sem_wait, next to the handler of one admitted connection whose peer  *)
(* asks for "/json" or "/events", or closes.                               *)
(***************************************************************************)
LockRequests == {Get("/json"), Get("/events")}

NextLock ==
    \/ ProducerCycle /\ psample' <= 1
    \/ ReaderNext \/ RdSigOther
    \/ HandlerNext
    \/ \E c \in Conns : ClientSend(c) /\ sock'[c].rx \in LockRequests
    \/ \E c \in Conns : ClientClose(c)

SpecLock == InitConn /\ [][NextLock]_vars

(***************************************************************************)
(* SpecStuck: the Server next to a semaphore that nobody will post: the    *)
(* Producer was killed (SIGKILL, exit status 137) in its first cycle       *)
(* between sem_wait and its append, and the Server was started after       *)
(* that.  One connection is admitted; its peer sends any request, closes,  *)
(* resets or sends more bytes; the termination signal may arrive; a signal *)
(* may interrupt data_reader_thread in sem_wait.  The threads of the       *)
(* Server are scheduled fairly.                                            *)
(***************************************************************************)
InitStuck ==
    /\ cfgfile = NoFile
    /\ script = "running"
    /\ device = GoodRecord
    /\ OthersOff
    /\ shmExists = TRUE /\ semExists = TRUE /\ sem = 0 /\ holders = {"producer"}
    /\ seg = ZeroSegment
    /\ ppc = "exited" /\ prunning = TRUE /\ pzero = {} /\ pexit = 137
    /\ psample \in Samples
    /\ written = <<>>
    /\ running = TRUE /\ attached = TRUE /\ pipe = 0
    /\ config = DEFAULT_SERVER_CONFIG
    /\ active = 1
    /\ cache = [current_sample |-> 0, average |-> 0, version |-> 0]
    /\ mutex = Free /\ woken = {} /\ pub = [sample |-> 0, avg |-> 0]
    /\ rpc = "loop" /\ rsample = 0 /\ ravg = 0
    /\ apc = "select" /\ acur = 0 /\ alocal = 0 /\ alimit = TRUE /\ sexit = -1
    /\ listener = Listening(DEFAULT_SERVER_CONFIG)
    /\ sock = [c \in Conns |->
                 IF c = 1 THEN [NoSocket EXCEPT !.state = "accepted", !.peer = "open"]
                          ELSE NoSocket]
    /\ h = [c \in Conns |-> IF c = 1 THEN [NoHandler EXCEPT !.pc = "recv"] ELSE NoHandler]

\* the steps of the handler threads
HandlerSteps == HandlerNext \/ \E c \in Conns : HSseDrain(c)

NextStuck ==
    \/ ReaderNext \/ RdSigOther
    \/ HandlerSteps
    \/ SignalNext
    \/ \E c \in Conns :
          ClientSend(c) \/ ClientClose(c) \/ ClientAbort(c) \/ ClientSendMore(c)

\* part_002:205-219: the deadline of pthread_cond_timedwait is absolute and
\* computed once per call, so the wait cannot be woken early for ever
HCvTimeout(c) == HCvWake(c) /\ h'[c].rc = ETIMEDOUT

SpecStuck ==
    /\ InitStuck /\ [][NextStuck]_vars
    /\ SF_vars(HandlerSteps)
    /\ \A c \in Conns : SF_vars(HCvTimeout(c))
    /\ WF_vars(ReaderNext)

(***************************************************************************)
(* SpecStop: the loops that poll a running flag.  The Producer runs its    *)
(* cycles (its samples all have the value 1) until SIGTERM or SIGINT       *)
(* reaches it; data_reader_thread publishes and the handler of one         *)
(* admitted connection, whose peer asked for "/events" and stays, streams  *)
(* until the termination signal reaches the Server.  main() stays in its   *)
(* accept loop, so the Server process is alive throughout.  All threads    *)
(* are scheduled fairly, and a timed wait reaches its deadline.            *)
(***************************************************************************)
InitStop ==
    /\ cfgfile = NoFile
    /\ script = "running"
    /\ device = GoodRecord
    /\ OthersOff
    /\ SegmentReady
    /\ running = TRUE /\ attached = TRUE /\ pipe = 0
    /\ config = DEFAULT_SERVER_CONFIG
    /\ active = 1
    /\ cache = [current_sample |-> 0, average |-> 0, version |-> 0]
    /\ mutex = Free /\ woken = {} /\ pub = [sample |-> 0, avg |-> 0]
    /\ rpc = "loop" /\ rsample = 0 /\ ravg = 0
    /\ apc = "select" /\ acur = 0 /\ alocal = 0 /\ alimit = TRUE /\ sexit = -1
    /\ listener = Listening(DEFAULT_SERVER_CONFIG)
    /\ sock = [c \in Conns |->
                 IF c = 1 THEN [NoSocket EXCEPT !.state = "accepted", !.peer = "open",
                                                !.rx = Get("/events")]
                          ELSE NoSocket]
    /\ h = [c \in Conns |-> IF c = 1 THEN [NoHandler EXCEPT !.pc = "recv"] ELSE NoHandler]

\* appends and publications before the flags are cleared
StopCycles == 1

\* the steps of the Producer in SpecStop: it starts at most StopCycles
\* appends
ProducerSteps ==
    \/ ProducerCycle /\ psample' <= 1 /\ (ppc' = "sem_wait" => Len(written) < StopCycles)
    \/ ProdShutdown

\* the steps of data_reader_thread in SpecStop: while running is set it
\* starts at most StopCycles publications
ReaderSteps ==
    ReaderNext /\ ((rpc = "loop" /\ running) => cache.version < StopCycles)

\* the steps of a handler that serves "/events"
StreamSteps ==
    \E c \in Conns :
        \/ HRecv(c) \/ HLock(c) \/ HCopySample(c) \/ HCopyAvg(c) \/ HGetUnlock(c)
        \/ HSendHeader(c) \/ HSseRetry(c) \/ HSseLoop(c)
        \/ HWaitCheck(c) \/ HCvWake(c) \/ HWaitVersion(c) \/ HWaitUnlock(c)
        \/ HSseSend(c) \/ HOut(c)

\* each process receives its termination signal once
NextStop ==
    \/ ProducerSteps
    \/ ProdSignal /\ prunning
    \/ ReaderSteps \/ RdSigOther
    \/ StreamSteps
    \/ SignalNext /\ running

SpecStop ==
    /\ InitStop /\ [][NextStop]_vars
    /\ WF_vars(ProducerSteps)
    /\ WF_vars(ReaderSteps)
    /\ WF_vars(StreamSteps)
    /\ SF_vars(HCvTimeout(1))

(***************************************************************************)
(* SpecDetach: the shutdown of the Server next to data_reader_thread.      *)
(* main() is in its accept loop with no client; the termination signal     *)
(* arrives; main() leaves the loop, cleans up and returns, while the       *)
(* detached reader thread goes on until the process ends.                  *)
(***************************************************************************)
NextDetach ==
    \/ ReaderNext \/ RdUseAfterDetach
    \/ SignalNext
    \/ AccLoop \/ AccSelect \/ AccDrainRead \/ AccCleanup \/ AccShutdown

SpecDetach == InitFlow /\ [][NextDetach]_vars

(***************************************************************************)
(* Properties.                                                             *)
(***************************************************************************)
\* the Producer is at a statement that reads or writes the segment
ProducerInSegment == ppc \in {"memset", "append", "average"}
\* data_reader_thread is at a statement that reads the segment
ReaderInSegment == rpc \in {"copy_sample", "copy_avg"}

\* C1 (SpecSeg): at most one of the Producer and data_reader_thread is inside
\* the segment, and whoever is inside it holds the named semaphore; the
\* Producer's memset at startup, its append and average, and the reader's two
\* copies all count as being inside.
SegmentMutualExclusion ==
    /\ ~(ProducerInSegment /\ ReaderInSegment)
    /\ ProducerInSegment => "producer" \in holders
    /\ ReaderInSegment => "reader" \in holders

\* handlers whose get_cached_data / wait_for_new_data call has copied both
\* fields of the cache
HasPair(c) ==
    h[c].pc \in {"get_unlock", "respond", "body", "sse_retry", "sse_loop", "wait_lock",
                 "wait_check", "cv_wait", "wait_version", "wait_sample", "wait_unlock",
                 "sse_send"}

\* C2 (SpecCache): the Sample and the Average a handler got from
\* get_cached_data or wait_for_new_data were stored by one and the same
\* publication, and the version wait_for_new_data returns is the number of
\* that publication.
NoTornCacheRead ==
    \A c \in Conns :
        /\ HasPair(c) => h[c].spub = h[c].apub
        /\ h[c].pc \in {"wait_unlock", "sse_send"} =>
              h[c].new_version = h[c].spub /\ h[c].new_version = h[c].apub

\* a streaming handler holds the pair and the version of the second
\* publication while data_reader_thread is about to publish again
NoTornCacheReadWitness ==
    \E c \in Conns :
        /\ h[c].pc = "sse_send"
        /\ h[c].spub = 2 /\ h[c].apub = 2 /\ h[c].new_version = 2
        /\ rpc \in {"loop", "sem_wait", "copy_sample", "copy_avg", "sem_post", "lock"}

\* C3 (SpecCache): Cache.version starts at 0; a step changes it only when it
\* is data_reader_thread's version++ and then adds exactly one; a handler's
\* wait_for_new_data returns the version it last saw or a larger one, never
\* more than the cache holds.
VersionMonotone ==
    /\ cache.version = 0
    /\ [][cache.version' # cache.version =>
             /\ rpc = "inc_version" /\ rpc' = "broadcast"
             /\ cache.version' = cache.version + 1]_vars
    /\ [][\A c \in Conns :
             h[c].pc = "wait_version" /\ h'[c].pc = "wait_sample" =>
                \/ h'[c].new_version = h[c].last_version
                \/ h'[c].new_version > h[c].last_version]_vars
    /\ [](\A c \in Conns :
             h[c].last_version <= h[c].new_version /\ h[c].new_version <= cache.version)

\* a handler that last saw version 1 has just read version 2
VersionMonotoneWitness ==
    /\ cache.version = 2
    /\ \E c \in Conns :
          h[c].pc = "wait_sample" /\ h[c].last_version = 1 /\ h[c].new_version = 2

\* the segment and the Producer's record of its appends describe the same run
\* (between shm_open and the end of memset the segment still holds whatever
\* the previous run left)
RingInitialised == ppc # "memset"

\* C4 (SpecRing): after N <= BUFFER_SIZE appends to the ring the Producer
\* initialised, count = N and buffer[0..N-1] are the N samples in the order
\* they were appended.
RingNotFull ==
    (RingInitialised /\ Len(written) <= BUFFER_SIZE) =>
        /\ seg.count = Len(written)
        /\ \A i \in 1..Len(written) : seg.buffer[i - 1] = written[i]

\* the ring has just been filled with samples that are not all equal
RingNotFullWitness ==
    /\ ppc = "average"
    /\ Len(written) = BUFFER_SIZE
    /\ seg.count = BUFFER_SIZE
    /\ written[1] # written[BUFFER_SIZE]

\* C5 (SpecRing): after N > BUFFER_SIZE appends count is BUFFER_SIZE and the
\* ring, read circularly from the write cursor, is the last BUFFER_SIZE
\* samples in the order they were appended; the append that follows the
\* filling of the ring replaces buffer[0], which held the first sample, and
\* leaves the other entries alone.
RingFull ==
    /\ []((RingInitialised /\ Len(written) > BUFFER_SIZE) =>
            /\ seg.count = BUFFER_SIZE
            /\ \A k \in 0..(BUFFER_SIZE - 1) :
                  seg.buffer[(seg.write_index + k) % BUFFER_SIZE]
                     = written[Len(written) - BUFFER_SIZE + k + 1])
    /\ [][(Len(written) = BUFFER_SIZE /\ Len(written') = BUFFER_SIZE + 1) =>
             /\ seg.buffer[0] = written[1]
             /\ seg'.buffer[0] = written'[BUFFER_SIZE + 1]
             /\ \A i \in 1..(BUFFER_SIZE - 1) : seg'.buffer[i] = seg.buffer[i]
             /\ seg'.count = BUFFER_SIZE]_vars

\* two samples have been appended to the full ring, the first of them
\* differing from the sample it replaced
RingFullWitness ==
    /\ ppc = "sleep"
    /\ Len(written) = BUFFER_SIZE + 2
    /\ seg.write_index = 2
    /\ written[1] # written[BUFFER_SIZE + 1]
    /\ seg.buffer[0] = written[BUFFER_SIZE + 1]

\* C6 (SpecRing): whenever the semaphore is free and the ring holds samples,
\* average is the sum of the count valid entries divided by count.
AverageIsMean ==
    (sem > 0 /\ seg.count > 0) =>
        seg.average = SumTo(seg.buffer, seg.count) \div seg.count

\* handler threads that were admitted and have not ended
Alive == {c \in Conns : h[c].pc \notin {"none", "done"}}

\* C7 (SpecAdm): with a limit K > 0, the admission check loads the number of
\* admitted handlers still alive, the connection is admitted exactly when
\* that number is below K, and never more than K handlers are alive.
AdmissionBound ==
    /\ [](config.max_connnections > 0 => Cardinality(Alive) <= config.max_connnections)
    /\ [][(apc = "check" /\ apc' = "decide") => alocal' = Cardinality(Alive)]_vars
    /\ [][(apc = "decide" /\ apc' # "decide" /\ config.max_connnections > 0) =>
             /\ (apc' = "spawn") <=> (alocal < config.max_connnections)
             /\ (apc' = "spawn") <=> (active' = active + 1)
             /\ (apc' # "spawn") <=> (sock'[acur].state = "refused")]_vars

\* K handlers are alive and one more connection, whose peer is still
\* connected, has been refused
AdmissionBoundWitness ==
    /\ config.max_connnections > 0
    /\ Cardinality(Alive) = config.max_connnections
    /\ \E c \in Conns : sock[c].state = "refused" /\ sock[c].peer = "open"

\* C8 (SpecAdm): when the limit is reached or is 0 the acceptor closes the
\* accepted connection: nothing is sent on it, no handler is created,
\* active_connections and the cache stay as they were.
RefusalIsSilent ==
    /\ [](\A c \in Conns :
             sock[c].state = "refused" => sock[c].sent = <<>> /\ h[c].pc = "none")
    /\ [][(/\ apc = "decide" /\ apc' # "decide"
           /\ \/ config.max_connnections = 0
              \/ config.max_connnections > 0 /\ alocal >= config.max_connnections) =>
             /\ sock'[acur] = [sock[acur] EXCEPT !.state = "refused"]
             /\ \A c \in Conns \ {acur} : sock'[c] = sock[c]
             /\ h' = h
             /\ active' = active
             /\ cache' = cache /\ pub' = pub]_vars

\* a connection was refused under limit 0 and its peer is still connected
RefusalIsSilentWitness ==
    /\ config.max_connnections = 0
    /\ apc = "loop"
    /\ active = 0
    /\ \E c \in Conns : sock[c].state = "refused" /\ sock[c].peer = "open"

\* C9 (SpecAdm): once a termination signal has been handled, on whichever
\* thread and at whichever point of main(), main() eventually returns, unless
\* termination signals keep arriving for ever (no further signal is needed).
ShutdownLiveness ==
    \/ []<><<SignalNext>>_vars
    \/ (running = FALSE) ~> (apc = "exited")

\* C10 as stated (SpecRing): once the Producer has exited after a termination
\* signal neither OS object exists.
ProducerRemovesObjects ==
    (ppc = "exited" /\ pexit = 0) => (~shmExists /\ ~semExists)

\* C10 as the code has it (SpecRing): the Producer's shutdown leaves both OS
\* objects in place; they exist after its exit until the launch script's
\* cleanup removes them, and no other step removes them.
ObjectsOutliveProducer ==
    /\ []((ppc = "exited" /\ pexit = 0 /\ script = "running") =>
             (shmExists /\ semExists))
    /\ [][((shmExists /\ ~shmExists') \/ (semExists /\ ~semExists')) =>
             (script = "running" /\ script' = "cleaned")]_vars

\* the Producer has exited with code 0 after appending, the objects exist
ObjectsOutliveProducerWitness ==
    /\ ppc = "exited" /\ pexit = 0
    /\ Len(written) > 0
    /\ shmExists /\ semExists
    /\ script = "running"

\* C11 (SpecConn): wait_for_new_data goes on without waiting when the version
\* differs from last_version, and otherwise blocks, releasing the mutex; a
\* wake-up with rc = 0 only leads back to the test; when it returns
\* last_version the deadline had passed or running was cleared; the pair it
\* returns was stored by the publication whose number it returns.
WaitContract ==
    /\ [][\A c \in Conns :
             (h[c].pc = "wait_check" /\ h'[c] # h[c]) =>
                IF cache.version = h[c].last_version /\ running
                   THEN h'[c].pc = "cv_wait" /\ mutex' = Free
                   ELSE h'[c].pc = "wait_version" /\ mutex' = mutex]_vars
    /\ [][\A c \in Conns :
             (h[c].pc = "cv_wait" /\ h'[c] # h[c] /\ h'[c].rc = 0) =>
                h'[c].pc = "wait_check"]_vars
    /\ [](\A c \in Conns :
             /\ (h[c].pc \in {"wait_sample", "wait_avg", "wait_unlock"}
                   /\ h[c].new_version = h[c].last_version) =>
                      (h[c].rc = ETIMEDOUT \/ ~running)
             /\ h[c].pc = "wait_unlock" =>
                   (h[c].spub = h[c].new_version /\ h[c].apub = h[c].new_version))

\* a call is about to return last_version because running was cleared, after
\* the caller had seen a publication
WaitContractWitness ==
    \E c \in Conns :
        /\ h[c].pc = "wait_unlock"
        /\ h[c].last_version = 1 /\ h[c].new_version = 1
        /\ h[c].rc = 0 /\ ~running

\* C12 (SpecConn): what a connection that asked for "/events" has been sent
\* is the 200 header of the stream, then the retry directive, then data
\* frames only; the versions of the frames are strictly increasing, none is
\* below 1 (no frame before the first publication) and none is above the
\* version of the Cache.
StreamOrder ==
    \A c \in Conns :
        h[c].path = "/events" =>
            LET s == sock[c].sent IN
            /\ Len(s) >= 1 => s[1] = Header(200, "sse")
            /\ Len(s) >= 2 => s[2] = Retry
            /\ \A i \in 3..Len(s) :
                  /\ s[i].kind = "frame"
                  /\ s[i].version >= 1
                  /\ s[i].version <= cache.version
                  /\ \A j \in 3..(i - 1) : s[j].version < s[i].version

\* a stream that carried one frame for each of two publications
StreamOrderWitness ==
    \E c \in Conns :
        /\ h[c].path = "/events"
        /\ Len(sock[c].sent) = 4
        /\ sock[c].sent[3].version = 1
        /\ sock[c].sent[4].version = 2

\* C13 (SpecConn): in the loop of "/events", once the peer has closed or
\* reset the connection the next readiness wait ends the loop: the handler
\* closes the socket (and with it the epoll handle) and goes to its exit,
\* sending nothing; the drain of the input, whatever it reads, sends nothing
\* and leads back to that wait; a send that fails ends the loop in the same
\* way; nothing is ever sent on a closed socket, and a handler whose socket
\* is closed is at its exit or has ended.
StreamTermination ==
    /\ [][\A c \in Conns :
             /\ (h[c].pc = "sse_loop" /\ PeerGone(c) /\ h'[c] # h[c]) =>
                    /\ h'[c].pc = "out"
                    /\ sock'[c].state = "closed"
                    /\ sock'[c].sent = sock[c].sent
             /\ (h[c].pc = "sse_drain" /\ h'[c] # h[c]) =>
                    /\ h'[c].pc = "sse_loop"
                    /\ sock'[c].sent = sock[c].sent
             /\ (h[c].pc = "sse_send" /\ h'[c] # h[c] /\ sock'[c].sent = sock[c].sent) =>
                    /\ h'[c].pc = "out"
                    /\ sock'[c].state = "closed"
             /\ sock[c].state = "closed" =>
                    /\ sock'[c].state = "closed"
                    /\ sock'[c].sent = sock[c].sent
             /\ (h[c].pc = "out" /\ h'[c] # h[c]) => h'[c].pc = "done"
             /\ h[c].pc = "done" => h'[c] = h[c]]_vars
    /\ [](\A c \in Conns : sock[c].state = "closed" => h[c].pc \in {"out", "done"})

\* the handler of a stream that carried a frame has ended after the peer
\* reset the connection
StreamTerminationWitness ==
    \E c \in Conns :
        /\ h[c].path = "/events"
        /\ Len(sock[c].sent) >= 3
        /\ sock[c].peer = "reset"
        /\ sock[c].state = "closed"
        /\ h[c].pc = "done"

\* C14 (SpecConn): when the request line gave three tokens, the first thing
\* sent is fixed by the path token alone: "/" gets the 200 header of the HTML
\* page, "/json" the 200 header of the JSON snapshot, "/events" the 200
\* header of the stream, any other path the 404 header; what follows is the
\* body of that kind, or, for "/events", the retry directive and frames.
\* Neither the method nor the version token appears in the table.
RoutingByPath ==
    \A c \in Conns :
        LET s == sock[c].sent
            p == sock[c].rx.path
        IN  (sock[c].rx.n = 3 /\ Len(s) >= 1) =>
               /\ s[1].kind = "header"
               /\ s[1].status = IF p \in {"/", "/json", "/events"} THEN 200 ELSE 404
               /\ s[1].type = IF p = "/json" THEN "json"
                              ELSE IF p = "/events" THEN "sse" ELSE "html"
               /\ Len(s) >= 2 =>
                     IF p = "/events"
                        THEN \A i \in 2..Len(s) : s[i].kind \in {"retry", "frame"}
                        ELSE Len(s) = 2 /\ s[2].kind = "body" /\ s[2].type = s[1].type

\* a POST of "/json" under HTTP/1.0 was answered like a GET of it
RoutingByPathWitness ==
    \E c \in Conns :
        /\ sock[c].rx = RequestLine("POST", "/json", "HTTP/1.0")
        /\ Len(sock[c].sent) = 2
        /\ sock[c].sent[1].status = 200
        /\ sock[c].sent[2].type = "json"

\* C15 (SpecConn): every status line sent is 200 or 404; the handler of a
\* connection on which nothing arrived before the peer closed or reset, or
\* whose request line did not give three tokens, closes the socket without
\* having sent anything.
StatusLines ==
    /\ [][\A c \in Conns :
             (h[c].pc = "recv" /\ h'[c] # h[c] /\ sock[c].rx.n # 3) =>
                 /\ h'[c].pc = "out"
                 /\ sock'[c].state = "closed"
                 /\ sock'[c].sent = <<>>]_vars
    /\ [](\A c \in Conns :
             /\ \A i \in 1..Len(sock[c].sent) :
                   sock[c].sent[i].kind = "header" => sock[c].sent[i].status \in {200, 404}
             /\ (h[c].pc \in {"out", "done"} /\ sock[c].rx.n # 3) =>
                   (sock[c].sent = <<>> /\ sock[c].state = "closed"))

\* a request line of two tokens ended its handler with nothing sent
StatusLinesWitness ==
    \E c \in Conns :
        /\ sock[c].rx.n = 2
        /\ h[c].pc = "done"
        /\ sock[c].sent = <<>>
        /\ sock[c].state = "closed"

\* C16 (SpecIso): the step by which a handler ends its connection (after a
\* request that does not parse, a failed or empty read, a failed send to a
\* peer that closed or reset, or a completed response) changes nothing but
\* that connection: running, the configuration, the Cache with its mutex,
\* active_connections, the accept loop and the exit status of the process,
\* and every other connection and handler stay as they are; the handler then
\* decrements active_connections once, and active_connections changes in no
\* other way.
ConnectionIsolation ==
    [][\A c \in Conns :
          /\ (h[c].pc \notin {"out", "done"} /\ h'[c].pc = "out") =>
                /\ UNCHANGED <<running, config, cacheVars, active, mainVars>>
                /\ \A d \in Conns \ {c} : sock'[d] = sock[d] /\ h'[d] = h[d]
          /\ (h[c].pc = "out" /\ h'[c].pc = "done") =>
                /\ active' = active - 1
                /\ UNCHANGED <<running, config, cacheVars, mainVars, sock>>
                /\ \A d \in Conns \ {c} : h'[d] = h[d]
          /\ active' # active =>
                /\ active' = active - 1
                /\ \E d \in Conns : h[d].pc = "out" /\ h'[d].pc = "done"]_vars

\* the handler of connection 2 has ended after its peer reset the
\* connection, while the stream of connection 1 has carried a frame and is
\* waiting for the next publication
ConnectionIsolationWitness ==
    /\ h[Other].pc = "done"
    /\ sock[Other].peer = "reset"
    /\ h[Stream].pc = "cv_wait"
    /\ Len(sock[Stream].sent) >= 3
    /\ active = 1
    /\ running

\* C17 as stated (SpecCfg): a reload for which read_config_from_file fails
\* (the store cannot be opened, or one of its three lines does not convert)
\* leaves max_connnections, backlog and port as they were.
FailedReloadKeepsConfig ==
    [][(ReloadNext /\ read_config_from_file(config, cfgfile).rc # 0) =>
          config' = config]_vars

\* C18 (SpecCfg): a reload whose three lines convert sets the configuration
\* to the values of the store; no reload changes running,
\* active_connections, the Cache or the port and backlog of the listening
\* socket, which only the start-up sets; an admission check reads the
\* configuration as it is at the check, and, no reload having changed the
\* sign of the limit since, admits exactly when the limit of the
\* configuration as it is at the decision allows it.
ReloadEffect ==
    /\ [][ReloadNext =>
             /\ read_config_from_file(config, cfgfile).rc = 0 =>
                   config' = [max_connnections |-> cfgfile.max_connections,
                              backlog |-> cfgfile.backlog,
                              port |-> cfgfile.port]
             /\ running' = running
             /\ active' = active
             /\ cache' = cache /\ pub' = pub /\ mutex' = mutex
             /\ listener' = listener]_vars
    /\ [][listener' # listener => (apc = "listen" /\ listener' = Listening(config))]_vars
    /\ [][(apc = "check" /\ apc' = "decide") =>
             (alocal' = active /\ alimit' = (config.max_connnections > 0))]_vars
    /\ [][(apc = "decide" /\ apc' # "decide" /\ alimit = (config.max_connnections > 0)) =>
             ((apc' = "spawn") <=>
                 \/ config.max_connnections < 0
                 \/ config.max_connnections > 0 /\ alocal < config.max_connnections)]_vars

\* the Server listens as its defaults had it, the configuration holds another
\* port and backlog and the limit 1 after a reload, a connection has been
\* refused and another has just been admitted under the limit 1
ReloadEffectWitness ==
    /\ listener = Listening(DEFAULT_SERVER_CONFIG)
    /\ config = [max_connnections |-> 1, backlog |-> 6, port |-> 3738]
    /\ apc = "spawn" /\ alocal = 0
    /\ \E c \in Conns : sock[c].state = "refused" /\ sock[c].peer = "open"

\* C19 as stated (SpecExit): a Server that has exited without ever listening
\* (a start-up step failed) has exit status 1, and one that has exited after
\* it listened (the shutdown after a termination signal) has exit status 0.
ExitCodes ==
    apc = "exited" => sexit = (IF listener = NoListener THEN 1 ELSE 0)

\* C20 (SpecRing): the read of a record, whether it fails or gives a sample,
\* changes neither the segment, the semaphore, the OS objects nor the exit
\* code, and leads to the backoff or to the semaphore wait; the backoff
\* changes none of them either and leads back to the loop test, which starts
\* a new read while running is set; the Producer has no exit code while it
\* reads, sleeps or tests.
TransientErrors ==
    /\ [][/\ (ppc = "read" /\ ppc' # ppc) =>
               /\ ppc' \in {"sleep", "sem_wait"}
               /\ UNCHANGED <<segVars, pexit, written>>
          /\ (ppc = "sleep" /\ ppc' # ppc) =>
               /\ ppc' = "loop"
               /\ UNCHANGED <<segVars, pexit, written>>
          /\ (ppc = "loop" /\ ppc' # ppc) =>
               ppc' = (IF prunning THEN "read" ELSE "shutdown")]_vars
    /\ [](ppc \in {"loop", "read", "sleep"} => pexit = -1)

\* the Producer is in the backoff of a cycle that gave no sample: nothing
\* has been appended, the segment is as initialised, the semaphore is free
TransientErrorsWitness ==
    /\ ppc = "sleep"
    /\ written = <<>>
    /\ seg = ZeroSegment
    /\ sem = 1 /\ holders = {}
    /\ shmExists /\ semExists
    /\ prunning /\ pexit = -1

\* C21 as stated (SpecDev): when the record of the device is not the one in
\* the four-line format, the read of the Producer leads to the backoff, not
\* to the write into the segment.
DeviationDiscards ==
    [][(ppc = "read" /\ device # GoodRecord /\ ppc' # ppc) => ppc' = "sleep"]_vars

\* C22 as stated (SpecFlow): when the Producer has completed its last write,
\* of sample s, and data_reader_thread is about to start a cycle, the Cache
\* eventually holds s as its sample together with the average that write
\* computed.
EndToEndDelivery ==
    \A s \in Samples :
        (/\ Len(written) = MaxWrites /\ written[MaxWrites] = s
         /\ ppc \in {"sleep", "loop", "read"}
         /\ rpc = "loop" /\ cache.version < MaxVersion)
        ~> (cache.current_sample = s /\ cache.average = seg.average)

\* C23 (SpecCfg): the load of the configuration at start-up gives the three
\* values of the store when the store can be opened and its three lines
\* convert, and otherwise max_connnections = 10, backlog = 5, port = 3737,
\* whatever the lines that did convert hold.
StartupDefaults ==
    [][(apc = "config" /\ apc' # apc) =>
          config' = IF cfgfile.readable /\ cfgfile.parsed = 3
                       THEN [max_connnections |-> cfgfile.max_connections,
                             backlog |-> cfgfile.backlog,
                             port |-> cfgfile.port]
                       ELSE [max_connnections |-> 10, backlog |-> 5, port |-> 3737]]_vars

\* the Server has loaded its configuration from a store whose first two
\* lines convert to other values than the defaults and whose third does not:
\* it runs on the defaults
StartupDefaultsWitness ==
    /\ apc = "init_shm"
    /\ cfgfile.readable /\ cfgfile.parsed = 2
    /\ cfgfile.max_connections # 10 /\ cfgfile.backlog # 5
    /\ config = [max_connnections |-> 10, backlog |-> 5, port |-> 3737]

\* C24 (SpecAdm): active_connections is never negative and is the number of
\* handlers that exist and have not run their exit cleanup, plus one while
\* main() holds a reserved slot for a thread it has not created yet; it
\* grows only by the reservation, before any handler exists for the
\* connection; it shrinks only by one, either by the cleanup of a handler
\* that ends (which happens once: an ended handler stays ended until the
\* model reuses its index for a new peer) or by a failed thread creation,
\* which also closes the socket and starts no handler.
CounterInvariant ==
    /\ [](/\ active >= 0
          /\ active = Cardinality(Alive) + (IF apc = "spawn" THEN 1 ELSE 0))
    /\ [][/\ active' > active =>
               /\ active' = active + 1
               /\ apc = "decide" /\ apc' = "spawn"
               /\ h[acur].pc = "none" /\ h' = h
          /\ active' < active =>
               /\ active' = active - 1
               /\ \/ \E c \in Conns : h[c].pc = "out" /\ h'[c].pc = "done"
                  \/ /\ apc = "spawn" /\ apc' = "loop"
                     /\ sock'[acur].state = "closed"
                     /\ h' = h
          /\ \A c \in Conns :
               h[c].pc = "done" =>
                   \/ h'[c].pc = "done"
                   \/ h'[c].pc = "none" /\ sock'[c].state = "idle"]_vars

\* a thread creation has failed: the connection is closed without a handler
\* and the counter is again the number of live handlers, one of which exists
CounterInvariantWitness ==
    /\ apc = "loop"
    /\ \E c \in Conns : sock[c].state = "closed" /\ h[c].pc = "none"
    /\ Alive # {}
    /\ active = Cardinality(Alive)

\* part_002:230-521: where conn_handler stands, in the terms of the
\* connection's state machine.  The request is parsed once sscanf returned
\* 3; the route is taken once the path has been compared (the response of
\* the route is built before its header is sent); the connection is closed
\* from the close() before the exit label on.
Phase(c) ==
    LET pc == h[c].pc
        route == RouteHeader(h[c].path)
    IN  IF pc = "none" THEN "None"
        ELSE IF pc = "recv" THEN "Accepted"
        ELSE IF pc \in {"get_lock", "get_sample", "get_avg", "get_unlock"}
                THEN "RequestParsed"
        ELSE IF pc \in {"out", "done"} THEN "Closed"
        ELSE IF route.status = 404 THEN "NotFound"
        ELSE IF route.type = "sse" THEN "Stream"
        ELSE "Snapshot"

\* the moves of the connection's state machine
PhaseEdges ==
    {<<"Accepted", "RequestParsed">>, <<"Accepted", "Closed">>,
     <<"RequestParsed", "Snapshot">>, <<"RequestParsed", "Stream">>,
     <<"RequestParsed", "NotFound">>,
     <<"Snapshot", "Closed">>, <<"Stream", "Closed">>, <<"NotFound", "Closed">>}

\* C25 (SpecConn): an admitted connection changes its state only along
\* Accepted -> RequestParsed -> {Snapshot | Stream | NotFound} -> Closed or
\* Accepted -> Closed; its socket is closed in the step that enters Closed
\* and in no other step (so once), stays closed, and the admission slot is
\* released only by a handler that is in Closed with its socket closed.
ConnectionStateMachine ==
    [][\A c \in Conns :
          /\ Phase(c)' # Phase(c) => <<Phase(c), Phase(c)'>> \in PhaseEdges
          /\ (Phase(c)' = "Closed" /\ Phase(c) # "Closed") =>
                 sock[c].state = "accepted" /\ sock'[c].state = "closed"
          /\ (sock'[c].state = "closed" /\ sock[c].state # "closed") =>
                 Phase(c) # "Closed" /\ Phase(c)' = "Closed"
          /\ sock[c].state = "closed" => sock'[c].state = "closed"
          /\ (h[c].pc # "done" /\ h'[c].pc = "done") =>
                 /\ h[c].pc = "out" /\ sock[c].state = "closed"
                 /\ active' = active - 1
          /\ active' # active => \E d \in Conns : h[d].pc = "out" /\ h'[d].pc = "done"]_vars

\* a stream that sent a frame has ended: its socket is closed and its slot
\* released
ConnectionStateMachineWitness ==
    /\ h[1].pc = "done" /\ h[1].path = "/events"
    /\ \E i \in 1..Len(sock[1].sent) : sock[1].sent[i].kind = "frame"
    /\ sock[1].state = "closed"
    /\ active = 0

\* C26 as stated (SpecFlow): when data_reader_thread has made its two copies
\* and still holds the semaphore, the copies it is about to publish are the
\* Sample written last and the Average field of the segment.
ReaderCopiesLatest ==
    (rpc = "sem_post" /\ written # <<>>) =>
        /\ rsample = written[Len(written)]
        /\ ravg = seg.average

\* the thread that owns the cache mutex has a step of its own to take
MutexHolderStep ==
    \/ mutex = ReaderThread /\ ReaderNext
    \/ mutex \in Conns /\ HandlerNext /\ h'[mutex] # h[mutex]

\* C27 (SpecLock): data_reader_thread never owns the semaphore and the cache
\* mutex together, and has given the semaphore back whenever it waits for or
\* owns the mutex; no thread that owns the cache mutex is at a semaphore
\* operation; and whoever owns the cache mutex can take its next step, so
\* no wait of one lock for the other closes a cycle.
LockDiscipline ==
    /\ ~("reader" \in holders /\ mutex = ReaderThread)
    /\ "reader" \in holders => rpc \in {"copy_sample", "copy_avg", "sem_post"}
    /\ mutex = ReaderThread =>
          rpc \in {"store_sample", "store_avg", "inc_version", "broadcast", "unlock"}
    /\ \A c \in Conns :
          mutex = c => h[c].pc \in {"get_sample", "get_avg", "get_unlock", "wait_check",
                                    "wait_version", "wait_sample", "wait_avg",
                                    "wait_unlock"}
    /\ (mutex # Free /\ ServerAlive) => ENABLED MutexHolderStep

\* data_reader_thread owns the cache mutex while the Producer owns the
\* semaphore and a handler waits for the mutex
LockDisciplineWitness ==
    /\ mutex = ReaderThread
    /\ "producer" \in holders /\ sem = 0
    /\ \E c \in Conns : h[c].pc \in {"get_lock", "wait_lock"}

\* the part of the stuck-semaphore claim about the clients: a parsed request
\* for a path other than "/events" that has arrived on an admitted
\* connection is answered from the cache and the connection closed, and a
\* stream whose peer is gone, or after running was cleared, is closed
ClientsNotStalled ==
    \A c \in Conns :
        /\ (h[c].pc = "recv" /\ sock[c].rx.n = 3 /\ sock[c].rx.path # "/events")
              ~> (/\ h[c].pc = "done" /\ sock[c].state = "closed"
                  /\ (\A i \in 1..Len(sock[c].sent) : sock[c].sent[i].kind # "frame"))
        /\ (Phase(c) = "Stream" /\ (PeerGone(c) \/ ~running)) ~> Phase(c) = "Closed"

\* C28 as stated (SpecStuck): with the semaphore held for ever, the version
\* of the cache no longer changes and no stream sends a frame, while the
\* clients are still served as in ClientsNotStalled.
StuckSemaphoreContained ==
    /\ [][cache.version' = cache.version]_vars
    /\ [](\A c \in Conns : \A i \in 1..Len(sock[c].sent) : sock[c].sent[i].kind # "frame")
    /\ ClientsNotStalled

\* C30 as stated (SpecLock): the value of the named semaphore is 0 or 1, and
\* a thread that is about to call sem_post acquired the semaphore in its
\* preceding sem_wait.
SemaphoreBalance ==
    /\ sem \in {0, 1}
    /\ rpc = "sem_post" => "reader" \in holders
    /\ ppc = "sem_post" => "producer" \in holders

\* where a loop stands once it has done what it may still do after its
\* running flag was cleared: the Producer is past its append,
\* data_reader_thread past its increment of the version, the stream past
\* its send
ProducerPastAppend == ppc \in {"average", "sem_post", "sleep", "loop", "shutdown", "exited"}
ReaderPastPublication == rpc \in {"broadcast", "unlock", "sleep", "loop", "done"}
StreamPastSend(c) == h[c].pc \in {"sse_loop", "sse_drain", "out", "done"}

\* C29 (SpecStop): each running flag only changes from 1 to 0.  Once the
\* Producer's flag is 0 and the Producer is past an append it stays past it,
\* and it appends nowhere else, so at most one append follows; the same for
\* data_reader_thread and the increment of the version, and for the stream
\* and its frames.  A cleared flag stays cleared and a loop that has ended
\* stays ended, so "eventually, once the flag is 0" is: from some point on,
\* if the Producer's flag is 0 the Producer has left its loop and exited,
\* and if the Server's flag is 0 data_reader_thread has ended and the
\* handler of the stream has closed its socket and ended.
CooperativeShutdown ==
    /\ [][/\ running' # running => running /\ ~running'
          /\ prunning' # prunning => prunning /\ ~prunning'
          /\ (~prunning /\ ProducerPastAppend) => ProducerPastAppend'
          /\ written' # written => ~ProducerPastAppend /\ ProducerPastAppend'
          /\ (~running /\ ReaderPastPublication) => ReaderPastPublication'
          /\ cache.version' # cache.version =>
                 ~ReaderPastPublication /\ ReaderPastPublication'
          /\ \A c \in Conns :
                 /\ (~running /\ StreamPastSend(c)) => StreamPastSend(c)'
                 /\ (/\ Len(sock'[c].sent) > Len(sock[c].sent)
                     /\ sock'[c].sent[Len(sock'[c].sent)].kind = "frame") =>
                        ~StreamPastSend(c) /\ StreamPastSend(c)']_vars
    /\ <>[](/\ ~prunning => ppc = "exited"
            /\ ~running => /\ rpc = "done"
                           /\ h[1].pc = "done" /\ sock[1].state = "closed")

\* both flags are cleared, all three loops have ended, and after its flag
\* was cleared the stream had sent a frame
CooperativeShutdownWitness ==
    /\ ~running /\ ~prunning
    /\ ppc = "exited" /\ rpc = "done"
    /\ h[1].pc = "done" /\ sock[1].state = "closed"
    /\ written # <<>> /\ cache.version > 0
    /\ \E i \in 1..Len(sock[1].sent) : sock[1].sent[i].kind = "frame"

\* C31 as stated (SpecDetach): data_reader_thread executes a statement that
\* uses the semaphore handle or the mapping only while the Server is
\* attached, that is, not after cleanup_shared_memory.
NoUseAfterDetach ==
    [][(rpc \in {"sem_wait", "copy_sample", "copy_avg", "sem_post"} /\ rpc' # rpc)
          => attached]_vars

\* C32 as stated (SpecRing): whenever the semaphore is free, count and
\* write_index are in range, write_index is the number of appends since the
\* segment was initialised modulo BUFFER_SIZE, and a ring that is not full
\* has its write cursor at count.
StructuralRingInvariant ==
    sem > 0 =>
        /\ seg.count \in 0..BUFFER_SIZE
        /\ seg.write_index \in 0..(BUFFER_SIZE - 1)
        /\ RingInitialised => seg.write_index = Len(written) % BUFFER_SIZE
        /\ seg.count < BUFFER_SIZE => seg.write_index = seg.count

(***************************************************************************)
(* The lengths of a finite response, part_002 conn_handler 255-331 and     *)
(* 476-517.  A float of the cached Sample or Average enters by the number  *)
(* of digits before its decimal point, which is what the length of its     *)
(* "%.6f" rendering depends on; all seven fields of one record are taken   *)
(* to have the same number of digits.                                      *)
(***************************************************************************)
\* part_002:260-261: char body[512]; char header[256];
BODY_SIZE == 512
HEADER_SIZE == 256

\* a float has at most 39 digits before the point (FLT_MAX is about 3.4e38)
MaxFloatDigits == 39

FmtPaths == {"/", "/json", "/nope"}

\* snprintf(buf, size, ...) of a text of n bytes: it stores at most size - 1
\* of them and returns n, the length the whole text would have had
Snprintf(size, n) == [ret |-> n, stored |-> IF n < size THEN n ELSE size - 1]

\* "%.6f" of a value with d digits before the point: the digits, the point
\* and six decimals
FloatLen(d) == d + 7

\* "%d" of a length
DecLen(n) == IF n < 10 THEN 1 ELSE IF n < 100 THEN 2 ELSE IF n < 1000 THEN 3 ELSE 4

\* part_002:285-298, 311-324, 479-483: the length of the whole body text:
\* the page of 361 bytes; 139 bytes of JSON text around fourteen floats and
\* a timestamp of ten digits; the 404 page of 229 bytes
RenderedBody(path, sdig, adig) ==
    IF path = "/" THEN 361
    ELSE IF path = "/json" THEN 139 + 7 * FloatLen(sdig) + 7 * FloatLen(adig) + 10
    ELSE 229

\* part_002:299-306, 326-331, 485-491: the length of the header text around
\* the "%d" that renders body_len
RenderedHeader(path, body_len) ==
    (IF path = "/" THEN 121 ELSE IF path = "/json" THEN 88 ELSE 103) + DecLen(body_len)

\* part_002:494-501: "Ensure lengths are valid"
ClampLen(len, size) == IF len < 0 THEN 0 ELSE IF len >= size THEN size - 1 ELSE len

\* part_002:298-306, 311-331, 479-491: body_len is what snprintf returns for
\* the body; the header is rendered at once with that value as Content-Length
FmtRender ==
    /\ fmt.pc = "render"
    /\ LET body_len == Snprintf(BODY_SIZE, RenderedBody(fmt.path, fmt.sdig, fmt.adig)).ret
           header_len == Snprintf(HEADER_SIZE, RenderedHeader(fmt.path, body_len)).ret
       IN fmt' = [fmt EXCEPT !.pc = "clamp",
                             !.body_len = body_len,
                             !.content_length = body_len,
                             !.header_len = header_len]
    /\ UNCHANGED <<segVars, prodVars, script, cfgfile, device, i2c, gpio>>
    /\ UNCHANGED <<srvVars, cacheVars, readerVars, mainVars, connVars>>

\* part_002:494-501: both lengths are clamped to what their buffers hold
FmtClamp ==
    /\ fmt.pc = "clamp"
    /\ fmt' = [fmt EXCEPT !.pc = "send_header",
                          !.body_len = ClampLen(fmt.body_len, BODY_SIZE),
                          !.header_len = ClampLen(fmt.header_len, HEADER_SIZE)]
    /\ UNCHANGED <<segVars, prodVars, script, cfgfile, device, i2c, gpio>>
    /\ UNCHANGED <<srvVars, cacheVars, readerVars, mainVars, connVars>>

\* part_002:504-512: send() of the header takes all of it, a part of it, or
\* fails; anything but all of it closes the connection
FmtSendHeader ==
    /\ fmt.pc = "send_header"
    /\ \E s \in {-1, fmt.header_len - 1, fmt.header_len} :
          fmt' = [fmt EXCEPT !.pc = IF s = fmt.header_len THEN "send_body" ELSE "closed",
                             !.hsent = s]
    /\ UNCHANGED <<segVars, prodVars, script, cfgfile, device, i2c, gpio>>
    /\ UNCHANGED <<srvVars, cacheVars, readerVars, mainVars, connVars>>

\* part_002:513-516: send() is handed body_len bytes of the body
FmtSendBody ==
    /\ fmt.pc = "send_body"
    /\ fmt' = [fmt EXCEPT !.pc = "closed",
                          !.bsent = IF fmt.body_len > 0 THEN fmt.body_len ELSE -1]
    /\ UNCHANGED <<segVars, prodVars, script, cfgfile, device, i2c, gpio>>
    /\ UNCHANGED <<srvVars, cacheVars, readerVars, mainVars, connVars>>

(***************************************************************************)
(* SpecLen: the handler formats and sends one finite response, for every   *)
(* route and every magnitude of the cached values.                         *)
(***************************************************************************)
InitLen ==
    /\ cfgfile = NoFile
    /\ script = "running"
    /\ device = GoodRecord
    /\ ProducerOff
    /\ ServerOff
    /\ i2c = "off"
    /\ gpio = "off"
    /\ \E path \in FmtPaths, sdig \in 1..MaxFloatDigits, adig \in 1..MaxFloatDigits :
          fmt = [NoResponse EXCEPT !.pc = "render", !.path = path,
                                   !.sdig = sdig, !.adig = adig]

NextLen == FmtRender \/ FmtClamp \/ FmtSendHeader \/ FmtSendBody

SpecLen == InitLen /\ [][NextLen]_vars

\* C33 as stated (SpecLen): when the handler has closed a "/", "/json" or 404
\* response whose header was sent whole, the body bytes it sent are as many
\* as the Content-Length of the header says, truncated body included; the
\* body is sent only after the whole header.
ContentLengthConsistent ==
    /\ (fmt.pc = "closed" /\ fmt.hsent = fmt.header_len) =>
          fmt.bsent = fmt.content_length
    /\ (fmt.pc # "off" /\ fmt.hsent # fmt.header_len) => fmt.bsent = -1

(***************************************************************************)
(* SpecSlot: one admitted connection from its accept to the end of its     *)
(* handler, with every behaviour of the peer, the termination signal and   *)
(* signals handled on the handler's thread.  The handler and the reader    *)
(* thread are scheduled, and a timed wait that keeps being entered times   *)
(* out eventually.                                                         *)
(***************************************************************************)
\* part_002:591-600 with 240-245: handle_signal is installed for nearly
\* every signal with sa_flags = 0 and no thread blocks any signal.  A signal
\* whose handling changes no state (SIGWINCH, or the default branch), run on
\* the handler's thread while it is blocked in recv(), makes recv return
\* -1/EINTR; bytes_read <= 0 closes the connection.
HSigOther(c) ==
    /\ ServerAlive
    /\ h[c].pc = "recv"
    /\ sock[c].rx = NoRequest
    /\ ~PeerGone(c)
    /\ sock' = [sock EXCEPT ![c].state = "closed"]
    /\ h' = [h EXCEPT ![c].pc = "out"]
    /\ UNCHANGED <<active, cacheVars>>
    /\ hFrame

SlotRequests == {Get("/"), Get("/events"), [n |-> 0, method |-> "", path |-> "", version |-> ""]}

NextSlot ==
    \/ ReaderNext
    \/ HandlerSteps
    \/ HSigOther(1)
    \/ SignalNext
    \/ ClientSend(1) /\ sock'[1].rx \in SlotRequests
    \/ ClientClose(1)
    \/ ClientAbort(1)
    \/ ClientSendMore(1)

SpecSlot ==
    /\ InitConn
    /\ [][NextSlot]_vars
    /\ SF_vars(HandlerSteps)
    /\ SF_vars(HCvTimeout(1))
    /\ WF_vars(ReaderNext)

\* the handler of connection c has a reason to end: the peer is gone, or a
\* request other than "/events" has arrived, or the stream has been told to
\* stop
HasReasonToEnd(c) ==
    /\ h[c].pc \notin {"none", "done"}
    /\ \/ PeerGone(c)
       \/ sock[c].rx # NoRequest /\ (sock[c].rx.n # 3 \/ sock[c].rx.path # "/events")
       \/ ~running /\ h[c].pc # "recv"

\* the liveness half of C34
SlotReleased ==
    HasReasonToEnd(1) ~> (h[1].pc = "done" /\ sock[1].state = "closed" /\ active = 0)

\* the safety half of C34: the handler of a silent, connected peer stays in
\* its recv and the slot stays taken
SilentPeerKeepsSlot ==
    [][(/\ h[1].pc = "recv"
        /\ sock[1].rx = NoRequest /\ sock'[1].rx = NoRequest
        /\ sock[1].peer = "open" /\ sock'[1].peer = "open")
          => (h'[1].pc = "recv" /\ active' = active)]_vars

\* C34 as stated (SpecSlot): an admitted connection whose peer sends or
\* closes (for "/events": whose peer is gone or whose process is told to
\* stop) eventually has its socket closed and its slot released, and the
\* handler of a peer that stays connected and silent keeps its slot.
SlotReleaseLiveness == SlotReleased /\ SilentPeerKeepsSlot

\* the statements of one cycle of data_reader_thread, in program order
ReaderCycle ==
    <<"loop", "sem_wait", "copy_sample", "copy_avg", "sem_post", "lock",
      "store_sample", "store_avg", "inc_version", "broadcast", "unlock", "sleep">>

\* C35 (SpecConn): a cycle of data_reader_thread that finds the Server
\* attached runs every statement from sem_wait to the sleep, none of them
\* depending on what the segment holds; the increment statement adds one to
\* the version of the Cache and no other step of any thread changes it.  The
\* version therefore advances while the segment stays as it is, and frames
\* that follow one another on a stream can carry the same values.
PublicationUnconditional ==
    /\ [][(rpc = "loop" /\ rpc' # rpc /\ running /\ attached) => rpc' = "sem_wait"]_vars
    /\ [][\A i \in 2..(Len(ReaderCycle) - 1) :
             (rpc = ReaderCycle[i] /\ rpc' # rpc) => rpc' = ReaderCycle[i + 1]]_vars
    /\ [][cache'.version = IF rpc = "inc_version" /\ rpc' # rpc THEN cache.version + 1
                                                              ELSE cache.version]_vars

\* two frames that follow one another on the stream of connection 1 carry
\* different versions and the same Sample and Average, and the segment was
\* never written
PublicationUnconditionalWitness ==
    /\ written = <<>>
    /\ \E i \in 1..(Len(sock[1].sent) - 1) :
          /\ sock[1].sent[i].kind = "frame"
          /\ sock[1].sent[i + 1].kind = "frame"
          /\ sock[1].sent[i + 1].version > sock[1].sent[i].version
          /\ sock[1].sent[i + 1].sample = sock[1].sent[i].sample
          /\ sock[1].sent[i + 1].avg = sock[1].sent[i].avg

NegativeLimitUnlimited ==
    [][(apc = "decide" /\ apc' # "decide") =>
          /\ config.max_connnections < 0 => (apc' = "spawn" /\ sock'[acur].state = "accepted")
          /\ config.max_connnections = 0 => (apc' = "loop" /\ sock'[acur].state = "refused")
          /\ sock'[acur].state = "refused" =>
                \/ config.max_connnections = 0
                \/ config.max_connnections > 0 /\ alocal >= config.max_connnections]_vars

\* under a negative limit every connection of the model is admitted and
\* alive at once, the last of them having been admitted while the others
\* were active
NegativeLimitUnlimitedWitness ==
    /\ config.max_connnections < 0
    /\ active = MaxClients
    /\ alocal = MaxClients - 1
    /\ \A c \in Conns : sock[c].state = "accepted" /\ h[c].pc = "recv"

(***************************************************************************)
(* SpecRestart: the Producer is started, stopped by a signal or killed     *)
(* inside its critical section, and started again, the two OS objects      *)
(* staying in place in between.                                            *)
(***************************************************************************)
\* producer.c:133-165: the process is killed (SIGKILL runs no handler)
\* between its sem_wait and its sem_post; the semaphore keeps the value 0.
ProdKill ==
    /\ ppc \in {"append", "average", "sem_post"}
    /\ "producer" \in holders
    /\ ppc' = "exited"
    /\ pexit' = 137
    /\ UNCHANGED <<prunning, psample, pzero, written>>
    /\ UNCHANGED segVars
    /\ prodFrame

NextRestart == LaunchProducer \/ ProducerNext \/ ProdKill

SpecRestart == Init /\ [][NextRestart]_vars

\* C38 (SpecRestart): the launch of the Producer and its start-up steps up
\* to sem_open leave an existing semaphore at its value; when the start-up
\* ends the whole segment is zero (count, write cursor, average, every
\* sample), whatever an earlier run had written, and a semaphore that
\* existed has the value it had, still 0 if a holder died with it.
RestartResetsRing ==
    /\ [][(ppc \in {"off", "exited", "shm_open", "memset"} /\ semExists) =>
             (sem' = sem /\ holders' = holders /\ semExists')]_vars
    /\ [][(ppc = "sem_open" /\ ppc' = "loop") =>
             /\ seg' = ZeroSegment
             /\ written' = <<>>
             /\ semExists => (sem' = sem /\ holders' = holders)
             /\ ~semExists => sem' = 1]_vars

\* the Producer was killed inside its critical section after it had filled
\* part of the ring; started again, it has finished its start-up: the
\* segment is zero and the semaphore is still 0
RestartResetsRingWitness ==
    /\ ppc = "loop"
    /\ pexit = -1
    /\ sem = 0
    /\ holders = {"producer"}
    /\ seg = ZeroSegment
    /\ written = <<>>

(***************************************************************************)
(* The low-level I2C2 interface, part_006: g_xfer, g_xfer_lock, the public *)
(* operations, the interrupt handler and the controller.                   *)
(*   lock      owner of g_xfer_lock (0: free)                              *)
(*   phase, error, buf, len, idx, done   the fields of g_xfer; buf is the  *)
(*             caller whose buffer the pointer refers to (0: NULL), done   *)
(*             the count of the completion                                 *)
(*   stat      bits set in I2C_IRQSTATUS                                   *)
(*   bus       the transaction the controller is carrying out and the      *)
(*             bytes it has still to move                                  *)
(*   pc, op, rlen, ret   per caller: position, operation, length asked     *)
(*             for, result of the last i2c2_start_*                        *)
(***************************************************************************)
MaxCallers == 2
MaxXferLen == 2

I2cCallers == 1..MaxCallers

NoTransaction == [kind |-> "none", left |-> 0]

\* part_006:340-345: the state i2c2_ll_init leaves, no caller inside
I2cReady ==
    [lock |-> 0, phase |-> "idle", error |-> "ok", buf |-> 0, len |-> 0, idx |-> 0,
     done |-> 0, stat |-> {}, bus |-> NoTransaction,
     pc |-> [p \in I2cCallers |-> "idle"],
     op |-> [p \in I2cCallers |-> "none"],
     rlen |-> [p \in I2cCallers |-> 0],
     ret |-> [p \in I2cCallers |-> "ok"]]

i2cFrame ==
    UNCHANGED <<segVars, prodVars, script, cfgfile, device, fmt, gpio,
                srvVars, cacheVars, readerVars, mainVars, connVars>>

\* part_006:499-505, 558-565: i2c2_ll_write_byte or i2c2_ll_read_block is
\* called (i2c2_ll_read_byte, 522-546, is read_block with one byte)
I2cCall(p, op, len) ==
    /\ i2c.pc[p] = "idle"
    /\ i2c' = [i2c EXCEPT !.pc[p] = "lock", !.op[p] = op, !.rlen[p] = len]
    /\ i2cFrame

\* part_006:507, 530, 567: mutex_lock(&g_xfer_lock)
I2cLock(p) ==
    /\ i2c.pc[p] = "lock"
    /\ i2c.lock = 0
    /\ i2c' = [i2c EXCEPT !.lock = p, !.pc[p] = "start_write"]
    /\ i2cFrame

\* part_006:410-415, 458-463: i2c2_ensure_clk fails, i2c2_start_* returns
\* its code before it touches g_xfer
I2cClockFail(p) ==
    /\ i2c.pc[p] \in {"start_write", "start_read"}
    /\ i2c' = [i2c EXCEPT !.pc[p] = "unlock", !.ret[p] = "EIO"]
    /\ i2cFrame

\* part_006:416-427 and 464-475: the completion is re-armed, g_xfer is set
\* up for this caller's buffer, the status bits are cleared and the
\* controller is started.  write_byte writes two bytes (508-510), the
\* others write the register address (532-533, 569) and then read.
I2cStart(p) ==
    /\ i2c.pc[p] \in {"start_write", "start_read"}
    /\ LET wr == i2c.pc[p] = "start_write"
           n  == IF wr THEN (IF i2c.op[p] = "write_byte" THEN 2 ELSE 1) ELSE i2c.rlen[p]
       IN i2c' = [i2c EXCEPT !.done = 0,
                             !.phase = IF wr THEN "write" ELSE "read",
                             !.error = "ok",
                             !.buf = p,
                             !.len = n,
                             !.idx = 0,
                             !.stat = {},
                             !.bus = [kind |-> IF wr THEN "write" ELSE "read", left |-> n],
                             !.pc[p] = IF wr THEN "wait_write" ELSE "wait_read"]
    /\ i2cFrame

\* part_006:432, 441 and 480, 488: wait_for_completion_timeout returns
\* because the completion was signalled; the result is g_xfer.error.  After
\* a good write of the register address the read follows (534-538, 570-574).
I2cWaitDone(p) ==
    /\ i2c.pc[p] \in {"wait_write", "wait_read"}
    /\ i2c.done > 0
    /\ i2c' = [i2c EXCEPT !.done = i2c.done - 1,
                          !.ret[p] = i2c.error,
                          !.pc[p] = IF /\ i2c.pc[p] = "wait_write"
                                       /\ i2c.op[p] = "read_block"
                                       /\ i2c.error = "ok"
                                       THEN "start_read" ELSE "unlock"]
    /\ i2cFrame

\* part_006:432-440 and 480-487: 100 ms pass without the completion: the
\* status bits are cleared and -ETIMEDOUT is returned; g_xfer and the
\* controller are left as they are.
I2cWaitTimeout(p) ==
    /\ i2c.pc[p] \in {"wait_write", "wait_read"}
    /\ i2c.done = 0
    /\ i2c' = [i2c EXCEPT !.stat = {},
                          !.ret[p] = "ETIMEDOUT",
                          !.pc[p] = "unlock"]
    /\ i2cFrame

\* part_006:511-512, 545-546, 576-577: mutex_unlock and return; the
\* buffers of write_byte and read_byte end with the call
I2cUnlock(p) ==
    /\ i2c.pc[p] = "unlock"
    /\ i2c' = [i2c EXCEPT !.lock = 0, !.pc[p] = "idle"]
    /\ i2cFrame

\* the controller is ready for the next byte of its transaction: XRDY or
\* RRDY is raised
I2cBusReady ==
    /\ i2c.bus.kind # "none"
    /\ i2c.bus.left > 0
    /\ LET bit == IF i2c.bus.kind = "write" THEN "XRDY" ELSE "RRDY"
       IN /\ bit \notin i2c.stat
          /\ i2c' = [i2c EXCEPT !.stat = i2c.stat \cup {bit}]
    /\ i2cFrame

\* the controller has moved the bytes of I2C_CNT and sent the stop: ARDY
I2cBusDone ==
    /\ i2c.bus.kind # "none"
    /\ i2c.bus.left = 0
    /\ i2c' = [i2c EXCEPT !.stat = i2c.stat \cup {"ARDY"}, !.bus = NoTransaction]
    /\ i2cFrame

\* the slave does not acknowledge, or the arbitration is lost
I2cBusError(bit) ==
    /\ i2c.bus.kind # "none"
    /\ i2c' = [i2c EXCEPT !.stat = i2c.stat \cup {bit}, !.bus = NoTransaction]
    /\ i2cFrame

\* part_006:77-138: i2c2_ll_irq_handler.  A NACK or AL bit ends the handler
\* after it set the error and the phase and signalled the completion;
\* otherwise XRDY in the write phase and RRDY in the read phase move one
\* byte through g_xfer.buf when idx < len and the pointer is not NULL (a
\* dummy byte otherwise), and ARDY sets the phase idle and signals.
I2cIrq ==
    /\ i2c.stat # {}
    /\ IF i2c.stat \cap {"NACK", "AL"} # {}
          THEN i2c' = [i2c EXCEPT !.error = IF "NACK" \in i2c.stat THEN "ENXIO" ELSE "EAGAIN",
                                  !.phase = "idle",
                                  !.stat = i2c.stat \ {"NACK", "AL"},
                                  !.done = i2c.done + 1]
          ELSE LET tx   == "XRDY" \in i2c.stat /\ i2c.phase = "write"
                   rx   == "RRDY" \in i2c.stat /\ i2c.phase = "read"
                   move == (tx \/ rx) /\ i2c.idx < i2c.len /\ i2c.buf # 0
                   ardy == "ARDY" \in i2c.stat
               IN i2c' = [i2c EXCEPT
                     !.idx = IF move THEN i2c.idx + 1 ELSE i2c.idx,
                     !.bus = IF (tx \/ rx) /\ i2c.bus.left > 0
                                THEN [i2c.bus EXCEPT !.left = i2c.bus.left - 1]
                                ELSE i2c.bus,
                     !.stat = (i2c.stat \ (IF tx THEN {"XRDY"} ELSE {}))
                                 \ ((IF rx THEN {"RRDY"} ELSE {}) \cup {"ARDY"}),
                     !.phase = IF ardy THEN "idle" ELSE i2c.phase,
                     !.done = IF ardy THEN i2c.done + 1 ELSE i2c.done]
    /\ i2cFrame

(***************************************************************************)
(* SpecI2c: MaxCallers threads call the public operations again and again  *)
(* while the controller raises its events and the handler serves them.     *)
(***************************************************************************)
InitI2c ==
    /\ cfgfile = NoFile
    /\ script = "running"
    /\ device = GoodRecord
    /\ ProducerOff
    /\ ServerOff
    /\ fmt = NoResponse
    /\ gpio = "off"
    /\ i2c = I2cReady

NextI2c ==
    \/ \E p \in I2cCallers :
          \/ \E len \in 1..MaxXferLen : I2cCall(p, "read_block", len)
          \/ I2cCall(p, "write_byte", 0)
          \/ I2cLock(p) \/ I2cClockFail(p) \/ I2cStart(p)
          \/ I2cWaitDone(p) \/ I2cWaitTimeout(p) \/ I2cUnlock(p)
    \/ I2cBusReady \/ I2cBusDone
    \/ \E bit \in {"NACK", "AL"} : I2cBusError(bit)
    \/ I2cIrq

SpecI2c == InitI2c /\ [][NextI2c]_vars

\* caller p is inside i2c2_start_write or i2c2_start_read
I2cInTransfer(p) == p \in I2cCallers /\ i2c.pc[p] \in {"wait_write", "wait_read"}

\* C39 as stated (SpecI2c): at most one caller is between mutex_lock and
\* mutex_unlock and it owns the mutex; while no caller is inside
\* i2c2_start_write or i2c2_start_read the phase of g_xfer is idle; and the
\* interrupt handler moves a byte through g_xfer.buf only while the caller
\* whose buffer it is is inside the transfer that set the pointer.
I2cTransfersSelfContained ==
    /\ [](\A p \in I2cCallers :
            i2c.pc[p] \in {"start_write", "wait_write", "start_read", "wait_read", "unlock"}
               => i2c.lock = p)
    /\ []((\A p \in I2cCallers : ~I2cInTransfer(p)) => i2c.phase = "idle")
    /\ [][i2c'.idx = i2c.idx + 1 => I2cInTransfer(i2c.buf)]_vars

(***************************************************************************)
(* The GPIO interrupt counter, part_003 (and part_012, the same handler on *)
(* a struct): irq_counter, last_jiffies, the kernel's jiffies, and         *)
(*   since    jiffies that really passed since the last counted interrupt  *)
(*            (since the module was loaded, before the first one)          *)
(*   counted  an interrupt has been counted                                *)
(*   shown    the count the last read() reported (-1: none yet)            *)
(*   runs     parity of the number of runs of the interrupt handler        *)
(* unsigned long and __u32 are modelled with JiffiesBits and CounterBits   *)
(* bits, the debounce time with DebounceJiffies ticks.                     *)
(***************************************************************************)
JiffiesBits == 3
CounterBits == 2
DebounceJiffies == 2

JiffiesMod == 2 ^ JiffiesBits
CounterMod == 2 ^ CounterBits

\* include/linux/jiffies.h time_after(a, b): (long)((b) - (a)) < 0, as used
\* at part_003:74
time_after(a, b) == ((b - a) % JiffiesMod) >= JiffiesMod \div 2

gpioFrame ==
    UNCHANGED <<segVars, prodVars, script, cfgfile, device, fmt, i2c,
                srvVars, cacheVars, readerVars, mainVars, connVars>>

\* a timer tick
GpioTick ==
    /\ gpio' = [gpio EXCEPT !.jiffies = (gpio.jiffies + 1) % JiffiesMod,
                            !.since = IF gpio.since < 2 * JiffiesMod THEN gpio.since + 1
                                                                      ELSE gpio.since]
    /\ gpioFrame

\* part_003:68-88: gpio_irq_handler
GpioIrq ==
    /\ LET now == gpio.jiffies
       IN IF ~time_after(now, (gpio.last_jiffies + DebounceJiffies) % JiffiesMod)
             THEN gpio' = [gpio EXCEPT !.runs = 1 - gpio.runs]
             ELSE gpio' = [gpio EXCEPT !.runs = 1 - gpio.runs,
                                       !.last_jiffies = now,
                                       !.irq_counter = (gpio.irq_counter + 1) % CounterMod,
                                       !.since = 0,
                                       !.counted = TRUE]
    /\ gpioFrame

\* part_003:40-51: dev_read reports a snapshot of irq_counter
GpioRead ==
    /\ gpio' = [gpio EXCEPT !.shown = gpio.irq_counter]
    /\ gpioFrame

(***************************************************************************)
(* SpecGpio: the module is loaded at any value of jiffies; ticks,          *)
(* interrupts and reads follow in any order.                               *)
(***************************************************************************)
InitGpio ==
    /\ cfgfile = NoFile
    /\ script = "running"
    /\ device = GoodRecord
    /\ ProducerOff
    /\ ServerOff
    /\ fmt = NoResponse
    /\ i2c = "off"
    /\ \E j \in 0..(JiffiesMod - 1) :
          gpio = [jiffies |-> j, last_jiffies |-> 0, irq_counter |-> 0,
                  since |-> 0, counted |-> FALSE, shown |-> -1, runs |-> 0]

NextGpio == GpioTick \/ GpioIrq \/ GpioRead

SpecGpio == InitGpio /\ [][NextGpio]_vars

\* C40 as stated (SpecGpio): a run of the handler no later than the debounce
\* time after the last counted interrupt leaves irq_counter and last_jiffies
\* as they are; a run later than that adds exactly one to irq_counter and
\* stores the current jiffies; nothing else changes the two; and the count a
\* read reports is never below the count an earlier read reported.
DebounceCounts ==
    /\ [][(gpio'.runs # gpio.runs /\ gpio.counted /\ gpio.since <= DebounceJiffies) =>
             /\ gpio'.irq_counter = gpio.irq_counter
             /\ gpio'.last_jiffies = gpio.last_jiffies]_vars
    /\ [][(gpio'.runs # gpio.runs /\ gpio.counted /\ gpio.since > DebounceJiffies) =>
             /\ gpio'.irq_counter = gpio.irq_counter + 1
             /\ gpio'.last_jiffies = gpio.jiffies]_vars
    /\ [][gpio'.runs = gpio.runs =>
             /\ gpio'.irq_counter = gpio.irq_counter
             /\ gpio'.last_jiffies = gpio.last_jiffies]_vars
    /\ [][gpio'.shown >= gpio.shown]_vars
====
